---- MODULE Spec2Model ----
(***************************************************************************)
(* car-market-insights: the seeding script (maker/model/price catalog,     *)
(* listing ingestion and reconciliation) and the price-delta endpoint of   *)
(* the analytics API, as a state machine over the database tables.         *)
(*                                                                         *)
(* Text is a sequence of one-character strings.  A nullable column or a    *)
(* JavaScript value that may be null is an option: Null, or Some(v).       *)
(***************************************************************************)
EXTENDS Integers, Sequences, FiniteSets, TLC

VARIABLES makers, models, prices, listings,
          makerSeq, modelSeq, listingSeq,
          makerCache, modelCache, phase, lastMatch,
          req, resp, pages,
          sales, sold_cars, soldSeq,
          run, procs, titleIn, extracted,
          wait, localStorage, listingIds, lastCall, market_insights, now,
          insightCalls, page

vars == <<makers, models, prices, listings, makerSeq, modelSeq, listingSeq,
          makerCache, modelCache, phase, lastMatch, req, resp, pages,
          sales, sold_cars, soldSeq, run, procs, titleIn, extracted,
          wait, localStorage, listingIds, lastCall, market_insights, now,
          insightCalls, page>>

dbVars == <<makers, models, prices, listings, makerSeq, modelSeq, listingSeq>>

\* The sales and sold_cars tables, which only seedSales and seedSoldCars write.
soldVars == <<sales, sold_cars, soldSeq>>

\* The source files and position of a seeding run that reads whole files, the
\* seeding processes that run side by side, and the title handed to
\* extractMakeModel on its own.
driverVars == <<run, procs, titleIn, extracted>>

\* The call of waitForDatabase in progress; the browser's localStorage, the
\* state of the ComparisonList component and the last call made on the
\* comparison list; the market_insights table, the clock and the calls of
\* the insights handler in progress; the state of the Listings page.
appVars == <<wait, localStorage, listingIds, lastCall, market_insights, now,
             insightCalls, page>>

----------------------------------------------------------------------------
(* Options *)

Null == <<>>
Some(v) == <<v>>
IsNull(o) == o = <<>>
Get(o) == o[1]

----------------------------------------------------------------------------
(* Characters and text *)

Uppers == <<"A","B","C","D","E","F","G","H","I","J","K","L","M",
            "N","O","P","Q","R","S","T","U","V","W","X","Y","Z">>
Lowers == <<"a","b","c","d","e","f","g","h","i","j","k","l","m",
            "n","o","p","q","r","s","t","u","v","w","x","y","z">>
Digits == <<"0","1","2","3","4","5","6","7","8","9">>

InSeq(c, s) == \E i \in DOMAIN s : s[i] = c
RemoveAt(t, i) == SubSeq(t, 1, i - 1) \o SubSeq(t, i + 1, Len(t))
IndexIn(c, s) == CHOOSE i \in DOMAIN s : s[i] = c

IsSpace(c) == c = " "
IsDigit(c) == InSeq(c, Digits)
IsAlpha(c) == InSeq(c, Uppers) \/ InSeq(c, Lowers)

ToLower(c) == IF InSeq(c, Uppers) THEN Lowers[IndexIn(c, Uppers)] ELSE c
ToUpper(c) == IF InSeq(c, Lowers) THEN Uppers[IndexIn(c, Lowers)] ELSE c

LowerText(s) == [i \in DOMAIN s |-> ToLower(s[i])]
UpperText(s) == [i \in DOMAIN s |-> ToUpper(s[i])]

\* String.prototype.trim
RECURSIVE TrimLeft(_)
TrimLeft(s) == IF s # <<>> /\ IsSpace(Head(s)) THEN TrimLeft(Tail(s)) ELSE s
RECURSIVE TrimRight(_)
TrimRight(s) ==
    IF s # <<>> /\ IsSpace(s[Len(s)]) THEN TrimRight(SubSeq(s, 1, Len(s) - 1)) ELSE s
Trim(s) == TrimRight(TrimLeft(s))

\* The first index >= i of s that holds a space, Len(s)+1 when there is none.
RECURSIVE NextSpace(_, _)
NextSpace(s, i) ==
    IF i > Len(s) \/ IsSpace(s[i]) THEN i ELSE NextSpace(s, i + 1)

\* s.split(/\s+/) of a trimmed, non-empty s: the maximal runs of non-space.
RECURSIVE SplitWs(_)
SplitWs(s) ==
    IF s = <<>> THEN <<>>
    ELSE LET e == NextSpace(s, 1)
         IN <<SubSeq(s, 1, e - 1)>> \o SplitWs(TrimLeft(SubSeq(s, e, Len(s))))

\* s.split(' '): every single space separates, empty pieces are kept.
RECURSIVE SplitSpace(_)
SplitSpace(s) ==
    LET e == NextSpace(s, 1)
    IN IF e > Len(s) THEN <<s>>
       ELSE <<SubSeq(s, 1, e - 1)>> \o SplitSpace(SubSeq(s, e + 1, Len(s)))

\* parts.join(' ')
RECURSIVE JoinSpace(_)
JoinSpace(parts) ==
    IF parts = <<>> THEN <<>>
    ELSE IF Len(parts) = 1 THEN parts[1]
    ELSE parts[1] \o <<" ">> \o JoinSpace(Tail(parts))

\* PostgreSQL LIKE on already case-folded text t and pattern p, as its
\* matcher goes through them: % is any run, _ any one character, and a
\* backslash makes the character after it stand for itself.  The outcomes
\* are "true", "false", "abort" (the text has run out, no later start can
\* match: false as well) and "error": the matcher has come to a backslash
\* that ends the pattern ("LIKE pattern must not end with escape character").
Escape == "\\"

RECURSIVE MatchText(_, _)
RECURSIVE MatchRest(_, _, _)

\* The matcher tried at a start of the text gave r: every outcome but
\* "false" is final, else the next start is tried.
MatchFrom(r, t, p, first) == IF r # "false" THEN r ELSE MatchRest(Tail(t), p, first)

\* After a %: the pattern that is left is tried at every place of the text
\* that starts with its first character.
MatchRest(t, p, first) ==
    IF t = <<>> THEN "abort"
    ELSE IF Head(t) = first THEN MatchFrom(MatchText(t, p), t, p, first)
    ELSE MatchRest(Tail(t), p, first)

\* After a %: further % are skipped and each _ takes one character of the
\* text; a pattern that ends there matches.
RECURSIVE MatchAfterPercent(_, _)
MatchAfterPercent(t, p) ==
    IF p = <<>> THEN "true"
    ELSE IF Head(p) = "%" THEN MatchAfterPercent(t, Tail(p))
    ELSE IF Head(p) = "_"
         THEN IF t = <<>> THEN "abort" ELSE MatchAfterPercent(Tail(t), Tail(p))
    ELSE IF Head(p) = Escape
         THEN IF Len(p) < 2 THEN "error" ELSE MatchRest(t, p, p[2])
    ELSE MatchRest(t, p, Head(p))

MatchText(t, p) ==
    IF t = <<>> \/ p = <<>>
    THEN IF t # <<>> THEN "false"
         ELSE IF \A i \in DOMAIN p : p[i] = "%" THEN "true"
         ELSE "abort"
    ELSE IF Head(p) = Escape
         THEN IF Len(p) < 2 THEN "error"
              ELSE IF p[2] # Head(t) THEN "false"
              ELSE MatchText(Tail(t), Tail(Tail(p)))
    ELSE IF Head(p) = "%" THEN MatchAfterPercent(t, Tail(p))
    ELSE IF Head(p) = "_" THEN MatchText(Tail(t), Tail(p))
    ELSE IF Head(p) # Head(t) THEN "false"
    ELSE MatchText(Tail(t), Tail(p))

LikeMatch(s, p) == MatchText(s, p) = "true"

\* text ILIKE pattern, and whether evaluating it raises the error.
ILike(s, p) == LikeMatch(LowerText(s), LowerText(p))
ILikeThrows(s, p) == MatchText(LowerText(s), LowerText(p)) = "error"

\* A nullable column ILIKE a pattern, in a WHERE clause: NULL is not true.
ILikeCol(col, p) == ~IsNull(col) /\ ILike(Get(col), p)

----------------------------------------------------------------------------
(* extractMakeModel *)

\* Length of the run of digits of s that starts at index i.
RECURSIVE DigitRun(_, _)
DigitRun(s, i) ==
    IF i <= Len(s) /\ IsDigit(s[i]) THEN 1 + DigitRun(s, i + 1) ELSE 0

RECURSIVE SpaceRun(_, _)
SpaceRun(s, i) ==
    IF i <= Len(s) /\ IsSpace(s[i]) THEN 1 + SpaceRun(s, i + 1) ELSE 0

\* /\d+\.\d+\s*[A-Z]+/i matches at index i of s.  After the dot the digit
\* run may be given back one digit at a time, but the character after a
\* shorter run is a digit, never a space or a letter, so only the whole run
\* can succeed.
NumberCodeAt(s, i) ==
    LET d1 == DigitRun(s, i)
        j  == i + d1
        d2 == DigitRun(s, j + 1)
        k  == j + 1 + d2
        l  == k + SpaceRun(s, k)
    IN /\ d1 > 0
       /\ j <= Len(s) /\ s[j] = "."
       /\ d2 > 0
       /\ l <= Len(s) /\ IsAlpha(s[l])

\* /\s+\d+\.\d+\s*[A-Z]+.*$/i matches starting at index i of s.
SuffixAt(s, i) ==
    LET w == SpaceRun(s, i)
    IN w > 0 /\ NumberCodeAt(s, i + w)

\* s without what follows the first of the indexes where a match starts.
CutAtFirst(s, starts) ==
    IF starts = {} THEN s
    ELSE SubSeq(s, 1, (CHOOSE i \in starts : \A j \in starts : i <= j) - 1)

\* s.replace(/\s+\d+\.\d+\s*[A-Z]+.*$/i, ''): the leftmost match runs to the
\* end of the text and is removed.
StripSuffix(s) == CutAtFirst(s, {i \in DOMAIN s : SuffixAt(s, i)})

\* extractMakeModel without its special case for a second word "Benz".
extractFirstWordAsMake(title) ==
    IF IsNull(title) \/ Get(title) = <<>> THEN [make |-> Null, model |-> Null]
    ELSE LET parts == SplitWs(Trim(Get(title)))
         IN IF Len(parts) < 2
            THEN [make  |-> IF parts = <<>> \/ parts[1] = <<>> THEN Null
                            ELSE Some(parts[1]),
                  model |-> Null]
            ELSE [make  |-> Some(parts[1]),
                  model |-> Some(Trim(StripSuffix(JoinSpace(Tail(parts)))))]

\* title is an option (record.title may be '' or undefined: both falsy).
extractMakeModel(title) ==
    IF IsNull(title) \/ Get(title) = <<>> THEN [make |-> Null, model |-> Null]
    ELSE LET parts == SplitWs(Trim(Get(title)))
         IN IF Len(parts) < 2
            THEN [make  |-> IF parts = <<>> \/ parts[1] = <<>> THEN Null
                            ELSE Some(parts[1]),
                  model |-> Null]
            ELSE LET benz == parts[2] = <<"B","e","n","z">>
                     make == IF benz THEN parts[1] \o <<"-">> \o parts[2]
                             ELSE parts[1]
                     rest == IF benz THEN SubSeq(parts, 3, Len(parts))
                             ELSE SubSeq(parts, 2, Len(parts))
                 IN [make  |-> Some(make),
                     model |-> Some(Trim(StripSuffix(JoinSpace(rest))))]

----------------------------------------------------------------------------
(* Numbers *)

\* A JavaScript number, and a PostgreSQL numeric, is held as a tuple of
\* integers: <<n>> is the integer n (the same as Some(n)), <<m, k>> with
\* k >= 1 and m no multiple of 10 is m / 10^k, and three tuples with k = 0
\* are the values that are no finite number.
NaN == <<0, 0>>
Infinity == <<1, 0>>
NegInfinity == <<0 - 1, 0>>

IsInteger(x) == Len(x) = 1
IsFinite(x) == Len(x) = 1 \/ x[2] > 0

RECURSIVE Pow10(_)
Pow10(k) == IF k = 0 THEN 1 ELSE 10 * Pow10(k - 1)

\* m / 10^k in its shortest form.
RECURSIVE Normal(_, _)
Normal(m, k) ==
    IF k = 0 THEN <<m>>
    ELSE IF m % 10 = 0 THEN Normal(m \div 10, k - 1)
    ELSE <<m, k>>

\* m * 10^e
Scaled(m, e) == IF e >= 0 THEN <<m * Pow10(e)>> ELSE Normal(m, 0 - e)

\* The decimal places of a finite x, and x as a count of 10^-k (k at least
\* the places of x).
Places(x) == IF Len(x) = 1 THEN 0 ELSE x[2]
Units(x, k) == x[1] * Pow10(k - Places(x))

Negated(x) ==
    IF x = NaN THEN NaN
    ELSE IF Len(x) = 1 THEN <<0 - x[1]>>
    ELSE <<0 - x[1], x[2]>>

Abs(n) == IF n < 0 THEN 0 - n ELSE n

\* n / d rounded to an integer, halves away from zero (ROUND of numeric).
RoundDiv(n, d) ==
    LET q == (2 * Abs(n) + Abs(d)) \div (2 * Abs(d))
    IN IF (n < 0) = (d < 0) THEN q ELSE 0 - q

DigitVal(c) == IndexIn(c, Digits) - 1

RECURSIVE DigitsVal(_)
DigitsVal(s) ==
    IF s = <<>> THEN 0 ELSE 10 * DigitsVal(SubSeq(s, 1, Len(s) - 1)) + DigitVal(s[Len(s)])

AllDigits(s) == s # <<>> /\ \A i \in DOMAIN s : IsDigit(s[i])

\* The digits s starts with.
RECURSIVE LeadingDigits(_)
LeadingDigits(s) ==
    IF s = <<>> \/ ~IsDigit(Head(s)) THEN <<>>
    ELSE <<Head(s)>> \o LeadingDigits(Tail(s))

StartsWith(s, prefix) ==
    Len(s) >= Len(prefix) /\ SubSeq(s, 1, Len(prefix)) = prefix

InfinityText == <<"I","n","f","i","n","i","t","y">>

\* s has a dot at index n + 1, and the digits that follow it.
HasDot(s, n) == n < Len(s) /\ s[n + 1] = "."
Fraction(s, n) ==
    IF HasDot(s, n) THEN LeadingDigits(SubSeq(s, n + 2, Len(s))) ELSE <<>>

\* The ExponentPart of s at index e: e or E, an optional sign and digits.
\* len is its length (0: there is none), val the exponent.
ExponentPart(s, e) ==
    LET signed == e < Len(s) /\ s[e + 1] \in {"+", "-"}
        d3     == LeadingDigits(SubSeq(s, IF signed THEN e + 2 ELSE e + 1, Len(s)))
    IN IF e > Len(s) \/ s[e] \notin {"e", "E"} \/ d3 = <<>>
       THEN [len |-> 0, val |-> 0]
       ELSE [len |-> Len(d3) + (IF signed THEN 2 ELSE 1),
             val |-> IF signed /\ s[e + 1] = "-" THEN 0 - DigitsVal(d3)
                     ELSE DigitsVal(d3)]

\* The literal made of the digits d1, dot characters of dot, the digits d2
\* and the exponent part x.
DecimalOf(d1, dot, d2, x) ==
    [len |-> Len(d1) + dot + Len(d2) + x.len,
     val |-> Scaled(DigitsVal(d1 \o d2), x.val - Len(d2))]

\* The longest prefix of s that is a StrUnsignedDecimalLiteral: Infinity,
\* digits with an optional fraction, or a fraction, and an exponent when it
\* is complete.  len is the length of the prefix (0: there is none), val
\* its value.
UnsignedDecimalPrefix(s) ==
    LET d1  == LeadingDigits(s)
        d2  == Fraction(s, Len(d1))
        dot == IF HasDot(s, Len(d1)) THEN 1 ELSE 0
    IN IF StartsWith(s, InfinityText)
       THEN [len |-> Len(InfinityText), val |-> Infinity]
       ELSE IF d1 = <<>> /\ d2 = <<>> THEN [len |-> 0, val |-> NaN]
       ELSE DecimalOf(d1, dot, d2, ExponentPart(s, Len(d1) + dot + Len(d2) + 1))

\* The prefix u of a text after its sign, with the sign of s.
IsSigned(s) == s # <<>> /\ Head(s) \in {"+", "-"}
WithSign(s, u) ==
    IF u.len = 0 \/ ~IsSigned(s) THEN u
    ELSE [len |-> u.len + 1,
          val |-> IF Head(s) = "-" THEN Negated(u.val) ELSE u.val]

\* The same with an optional sign in front (StrDecimalLiteral).
DecimalPrefix(s) ==
    WithSign(s, UnsignedDecimalPrefix(IF IsSigned(s) THEN Tail(s) ELSE s))

\* The digits of the literals 0x.., 0o.. and 0b..
HexDigits == Digits \o <<"a","b","c","d","e","f">>
RadixOf(c) == IF c \in {"x", "X"} THEN 16
              ELSE IF c \in {"o", "O"} THEN 8
              ELSE IF c \in {"b", "B"} THEN 2
              ELSE 0
RadixDigit(c, radix) ==
    InSeq(ToLower(c), HexDigits) /\ IndexIn(ToLower(c), HexDigits) <= radix

\* The value of the digit c.
RadixValue(c) == IndexIn(ToLower(c), HexDigits) - 1

RECURSIVE RadixVal(_, _)
RadixVal(s, radix) ==
    IF s = <<>> THEN 0
    ELSE radix * RadixVal(SubSeq(s, 1, Len(s) - 1), radix)
             + (IndexIn(ToLower(s[Len(s)]), HexDigits) - 1)

\* s is a NonDecimalIntegerLiteral.
IsRadixLiteral(s) ==
    /\ Len(s) >= 3 /\ s[1] = "0" /\ RadixOf(s[2]) # 0
    /\ \A i \in 3..Len(s) : RadixDigit(s[i], RadixOf(s[2]))

\* The value of a prefix that is the whole of a text of length n, else NaN.
WholeOf(prefix, n) == IF prefix.len = n THEN prefix.val ELSE NaN

\* StringToNumber of a text t without white space around it.
StringToNumber(t) ==
    IF t = <<>> THEN <<0>>
    ELSE IF IsRadixLiteral(t)
         THEN <<RadixVal(SubSeq(t, 3, Len(t)), RadixOf(t[2]))>>
    ELSE WholeOf(DecimalPrefix(t), Len(t))

\* Number(text): white space around the numeral is dropped, '' is 0, and a
\* text that is no numeral as a whole is NaN.
ParseNumber(s) == StringToNumber(Trim(s))

RECURSIVE NatText(_)
NatText(n) ==
    IF n < 10 THEN <<Digits[n + 1]>> ELSE NatText(n \div 10) \o <<Digits[(n % 10) + 1]>>

\* The last k digits of n.
RECURSIVE PaddedText(_, _)
PaddedText(n, k) ==
    IF k = 0 THEN <<>> ELSE PaddedText(n \div 10, k - 1) \o <<Digits[(n % 10) + 1]>>

\* Number.prototype.toString, the text node-postgres sends for a number
\* (of the numbers that are written without an exponent).
NumberText(x) ==
    IF x = NaN THEN <<"N","a","N">>
    ELSE IF x = Infinity THEN InfinityText
    ELSE IF x = NegInfinity THEN <<"-">> \o InfinityText
    ELSE (IF x[1] < 0 THEN <<"-">> ELSE <<>>)
           \o NatText(Abs(x[1]) \div Pow10(Places(x)))
           \o (IF Places(x) = 0 THEN <<>>
               ELSE <<".">> \o PaddedText(Abs(x[1]) % Pow10(Places(x)), Places(x)))

\* String(value).replace(/,/g, '')
NoCommas(s) == SelectSeq(s, LAMBDA c : c # ",")

\* isNaN(num) ? null : num
NullIfNaN(num) == IF num = NaN THEN Null ELSE num

\* A CSV field is text; '' is what csv-parse gives for an empty field, and
\* stands for a column the file does not have (undefined) as well.
parseIntOrNull(value) ==
    IF value = <<>> THEN Null ELSE NullIfNaN(ParseNumber(NoCommas(value)))

\* record.X ? Number(record.X) : null
NumberOrNull(value) == IF value = <<>> THEN Null ELSE ParseNumber(value)

\* parseFloat(text): leading white space is skipped and the longest prefix
\* that is a decimal numeral is read; NaN (the value of the empty prefix)
\* when there is none.
ParseFloat(s) == DecimalPrefix(TrimLeft(s)).val

\* record.X ? parseFloat(record.X) : null
FloatOrNull(value) == IF value = <<>> THEN Null ELSE ParseFloat(value)

\* record.X || null
TextOrNull(value) == IF value = <<>> THEN Null ELSE Some(value)

----------------------------------------------------------------------------
(* Bounds of the model *)

\* Values the serial columns makers.id and models.id may reach, and rows of
\* the listings file that are ingested.
MaxSerial == 2
MaxListingRows == 2
\* A row of the sales file is ingested while the serial columns of makers
\* and models are below this value.
MaxSalesSerial == 1
\* Rows of the ad file that are ingested.
MaxSoldRows == 1
\* Rows of the listings table in the states the price-delta endpoint is
\* checked on, and the largest page size requested.
MaxListings == 2
\* Largest offset of a price-delta request.
MaxOffset == 1
MaxLimit == 2
\* Filter parameters (maker, model, minPrice, maxPrice, minDiscount,
\* maxDiscount) one request supplies.
MaxFilters == 2
\* Words of a title handed to extractMakeModel.
MaxTitleWords == 4
\* Rows of one source file, and runs of the seed script, where runs read
\* whole files.
MaxFileRows == 2
MaxRuns == 2
\* Rows of the price file each of the seeding processes that run side by side
\* reads.
MaxProcRows == 2
\* Largest maxRetries a caller passes to waitForDatabase (the default is 30).
MaxRetriesPassed == 3
\* Ids of the listings a user can put on the comparison list.
MaxListingId == 6
\* Rows of market_insights, and half hours the clock runs for.
MaxInsightRows == 3
MaxInsightCalls == 2
MaxHalfHours == 4
\* Requests the Listings page issues in a run.
MaxRequests == 3

\* What the last iteration of seedListings' loop did to reconcile its row.
NoMatch == [done |-> FALSE]

\* No seeding run that reads whole files, and no seeding processes side by side.
NoRun == [no |-> 0]
NoProcs == <<>>

\* No call of waitForDatabase, no call on the comparison list, no Listings
\* page in the browser.
NoWait == [pc |-> "idle"]
NoCall == [op |-> "none"]
NoPage == [mounted |-> FALSE]

\* The server has not been started and no browser is open.
AppIdle ==
    /\ wait = NoWait
    /\ localStorage = Null /\ listingIds = Null /\ lastCall = NoCall
    /\ market_insights = {} /\ now = 0 /\ insightCalls = <<>>
    /\ page = NoPage

----------------------------------------------------------------------------
(* Catalog ingestion: getMakerId, getModelId, seedPrices *)

MakerByName(name) == {m \in makers : m.name = name}

\* RETURNING the value the serial column took, also for a name that conflicts.
NextMakerSerial(name) == makerSeq + 1

\* INSERT INTO makers (name) ... ON CONFLICT (name) DO UPDATE ... RETURNING id.
\* The serial column takes its next value before the conflict is detected.
UpsertMakerId(name) ==
    IF MakerByName(name) # {} THEN (CHOOSE m \in MakerByName(name) : TRUE).id
    ELSE makerSeq + 1

\* INSERT INTO makers (name) without its ON CONFLICT clause.
InsertMakerRows(name) == makers \cup {[id |-> makerSeq + 1, name |-> name]}

UpsertMakerRows(name) ==
    IF MakerByName(name) # {} THEN makers
    ELSE makers \cup {[id |-> makerSeq + 1, name |-> name]}

\* getMakerId: the id, answered from makerCache when the key is cached.
MakerCacheKey(makerName) == UpperText(Trim(makerName))

CachedMaker(makerName) == MakerCacheKey(makerName) \in DOMAIN makerCache

getMakerId(makerName) ==
    IF CachedMaker(makerName) THEN makerCache[MakerCacheKey(makerName)]
    ELSE UpsertMakerId(Trim(makerName))

ModelByKey(makerId, genmodelId) ==
    {m \in models : m.maker_id = makerId /\ m.genmodel_id = genmodelId}

ModelCacheKey(makerId, genmodelId) == <<makerId, genmodelId>>

\* getModelId against the tables mk/md left by getMakerId.
UpsertModelId(md, makerId, genmodelId) ==
    LET hit == {m \in md : m.maker_id = makerId /\ m.genmodel_id = genmodelId}
    IN IF hit # {} THEN (CHOOSE m \in hit : TRUE).id ELSE modelSeq + 1

UpsertModelRows(md, makerId, modelName, genmodelId) ==
    LET hit == {m \in md : m.maker_id = makerId /\ m.genmodel_id = genmodelId}
    IN IF hit # {}
       THEN (md \ hit) \cup {[m EXCEPT !.name = modelName] : m \in hit}
       ELSE md \cup {[id |-> modelSeq + 1, maker_id |-> makerId,
                      name |-> modelName, genmodel_id |-> genmodelId]}

\* INSERT INTO prices ... ON CONFLICT (model_id, year) DO UPDATE SET ...
UpsertPrice(pr, modelId, year, entryPrice, entryPriceEur) ==
    {p \in pr : ~(p.model_id = modelId /\ p.year = year)}
        \cup {[model_id |-> modelId, year |-> year,
               entry_price |-> entryPrice, entry_price_eur |-> entryPriceEur]}

\* record.X of a row of a CSV file: '' also when the file has no column X
\* (undefined is falsy, as '' is).
Has(record, name) == name \in DOMAIN record
Col(record, name) == IF Has(record, name) THEN record[name] ELSE <<>>

\* a || b on texts
OrText(a, b) == IF a # <<>> THEN a ELSE b

\* The names seedPrices reads from a row of the price file.
MakerNameOf(record) == OrText(Col(record, "maker_canonical"), Col(record, "Maker"))
ModelNameOf(record) ==
    OrText(Col(record, "Genmodel"),
           OrText(Col(record, "model_norm"), Col(record, "Model")))
GenmodelIdOf(record) ==
    OrText(Col(record, "Genmodel_ID"),
           OrText(Col(record, "genmodel_id"), Col(record, "key")))

\* if (!makerName || !modelName || !genmodelId) continue;
IsCatalogRow(record) ==
    MakerNameOf(record) # <<>> /\ ModelNameOf(record) # <<>>
        /\ GenmodelIdOf(record) # <<>>

\* A parameter an INTEGER column takes: null or an integer.  node-postgres
\* sends a number as its text, and '1.5' or 'Infinity' is no integer: the
\* statement fails.
FitsInteger(x) == IsNull(x) \/ IsInteger(x)

\* What getMakerId(makerName) does to makers and to its cache.
GetMakerIdStep(makerName) ==
    LET mHit == CachedMaker(makerName)
    IN /\ makers' = IF mHit THEN makers ELSE UpsertMakerRows(Trim(makerName))
       /\ makerSeq' = IF mHit THEN makerSeq ELSE makerSeq + 1
       /\ makerCache' = IF mHit THEN makerCache
                        ELSE (MakerCacheKey(makerName) :> getMakerId(makerName))
                                 @@ makerCache

\* getModelId(makerId, modelName, genmodelId): the id, and what the call
\* does to models and to its cache.
getModelId(makerId, genmodelId) ==
    IF ModelCacheKey(makerId, genmodelId) \in DOMAIN modelCache
    THEN modelCache[ModelCacheKey(makerId, genmodelId)]
    ELSE UpsertModelId(models, makerId, Trim(genmodelId))

GetModelIdStep(makerId, modelName, genmodelId) ==
    LET key  == ModelCacheKey(makerId, genmodelId)
        dHit == key \in DOMAIN modelCache
    IN /\ models' = IF dHit THEN models
                    ELSE UpsertModelRows(models, makerId, Trim(modelName),
                                         Trim(genmodelId))
       /\ modelSeq' = IF dHit THEN modelSeq ELSE modelSeq + 1
       /\ modelCache' = IF dHit THEN modelCache
                        ELSE (key :> getModelId(makerId, genmodelId)) @@ modelCache

\* The INSERT of seedPrices is reached and fails: the year is no integer.
seedPricesThrows(record) ==
    /\ IsCatalogRow(record)
    /\ ~FitsInteger(parseIntOrNull(Col(record, "Year")))

\* The body of seedPrices' loop, for one row of the price file.  When the
\* INSERT fails the ids have been taken and the error leaves seedPrices.
seedPrices(record) ==
    IF ~IsCatalogRow(record)
    THEN UNCHANGED <<makers, models, prices, makerSeq, modelSeq,
                     makerCache, modelCache>>
    ELSE LET makerId == getMakerId(MakerNameOf(record))
             modelId == getModelId(makerId, GenmodelIdOf(record))
             year    == parseIntOrNull(Col(record, "Year"))
         IN /\ GetMakerIdStep(MakerNameOf(record))
            /\ GetModelIdStep(makerId, ModelNameOf(record), GenmodelIdOf(record))
            /\ prices' = IF IsNull(year) \/ year = <<0>> \/ ~IsInteger(year)
                         THEN prices
                         ELSE UpsertPrice(prices, modelId, year[1],
                                          NumberOrNull(Col(record, "Entry_price")),
                                          NumberOrNull(Col(record, "Entry_price_eur")))

\* One iteration of seedPrices' loop over the rows of the price file.  An
\* error ends the script: seedAll lets it pass and main exits.
SeedPricesRow(record) ==
    /\ phase = "prices"
    /\ makerSeq < MaxSerial /\ modelSeq < MaxSerial
    /\ seedPrices(record)
    /\ phase' = IF seedPricesThrows(record) THEN "failed" ELSE phase
    /\ UNCHANGED <<appVars, listings, listingSeq, lastMatch, req, resp, pages>>
    /\ UNCHANGED <<soldVars, driverVars>>

\* The years seedSales reads a column of.
SalesYears == 2001..2020

\* record[String(year)]
YearCol(record, year) ==
    IF Has(record, "units") /\ year \in DOMAIN record.units
    THEN record.units[year] ELSE <<>>

\* parseIntOrNull(record[String(year)]) || 0
UnitsOf(record, year) ==
    LET n == parseIntOrNull(YearCol(record, year))
    IN IF IsNull(n) THEN <<0>> ELSE n

\* The first year whose units no INTEGER column takes: its INSERT fails.
\* One more than the last year when there is none.
FirstBadYear(record) ==
    LET bad == {y \in SalesYears : ~IsInteger(UnitsOf(record, y))}
    IN IF bad = {} THEN 2021 ELSE CHOOSE y \in bad : \A z \in bad : y <= z

\* getMakerId(undefined) and modelName.trim() of undefined throw a TypeError;
\* the latter is evaluated when getModelId misses its cache.
SalesMakerThrows(record) == ~Has(record, "Maker")
SalesModelThrows(record) ==
    /\ ~SalesMakerThrows(record)
    /\ \/ ~Has(record, "Genmodel_ID")
       \/ /\ ~Has(record, "Genmodel")
          /\ ModelCacheKey(getMakerId(record.Maker), record.Genmodel_ID)
                 \notin DOMAIN modelCache

seedSalesThrows(record) ==
    \/ SalesMakerThrows(record)
    \/ SalesModelThrows(record)
    \/ FirstBadYear(record) \in SalesYears

\* The body of seedSales' loop, for one row of the sales file: the ids from
\* getMakerId and getModelId, then one upsert of sales for each year, up to
\* the statement that fails.
seedSales(record) ==
    IF SalesMakerThrows(record)
    THEN UNCHANGED <<makers, makerSeq, makerCache, models, modelSeq, modelCache,
                     sales>>
    ELSE IF SalesModelThrows(record)
    THEN /\ GetMakerIdStep(record.Maker)
         /\ UNCHANGED <<models, modelSeq, modelCache, sales>>
    ELSE LET makerId == getMakerId(record.Maker)
             modelId == getModelId(makerId, record.Genmodel_ID)
             years   == {y \in SalesYears : y < FirstBadYear(record)}
         IN /\ GetMakerIdStep(record.Maker)
            /\ GetModelIdStep(makerId, Col(record, "Genmodel"), record.Genmodel_ID)
            /\ sales' = {r \in sales : ~(r.model_id = modelId /\ r.year \in years)}
                          \cup {[model_id |-> modelId, year |-> y,
                                 units |-> UnitsOf(record, y)[1]] : y \in years}

\* x in a DECIMAL(12,2) column: rounded to two decimal places.
Decimal2(x) ==
    IF IsNull(x) \/ x = NaN \/ Places(x) <= 2 THEN x
    ELSE Normal(RoundDiv(x[1], Pow10(Places(x) - 2)), 2)

\* The INTEGER columns of sold_cars and the CSV columns they are read from.
SoldIntegerCols ==
    {"Adv_year", "Adv_month", "Reg_year", "Runned_Miles", "Seat_num", "Door_num"}

\* The VARCHAR(n) columns of sold_cars and the CSV columns they are read from.
SoldVarcharCols ==
    { [col |-> "Maker", n |-> 255], [col |-> "Genmodel", n |-> 255],
      [col |-> "Genmodel_ID", n |-> 50], [col |-> "Adv_ID", n |-> 255],
      [col |-> "Color", n |-> 100], [col |-> "Bodytype", n |-> 100],
      [col |-> "Engin_size", n |-> 50], [col |-> "Gearbox", n |-> 50],
      [col |-> "Fuel_type", n |-> 50] }

\* A text is too long for a VARCHAR(n) column when it holds a character
\* other than a space after the n-th; spaces beyond the n-th are cut off.
TooLong(text, n) == \E i \in (n + 1)..Len(text) : text[i] # " "
Varchar(text, n) ==
    IF IsNull(text) \/ Len(Get(text)) <= n THEN text
    ELSE Some(SubSeq(Get(text), 1, n))

\* The INSERT fails: a parameter of an INTEGER column is no integer, a text
\* is too long for its column, or the price is infinite (a price of the
\* model is always below the 10^10 a DECIMAL(12,2) ends at).  The parameters
\* are converted to their columns' types before the statement runs, so the
\* serial column keeps its value.
SoldBindThrows(record) ==
    \E c \in SoldIntegerCols : ~FitsInteger(parseIntOrNull(Col(record, c)))
SoldTextThrows(record) ==
    \E c \in SoldVarcharCols : TooLong(Col(record, c.col), c.n)
SoldPriceThrows(record) ==
    FloatOrNull(Col(record, "Price")) \in {Infinity, NegInfinity}
seedSoldCarsThrows(record) ==
    SoldBindThrows(record) \/ SoldTextThrows(record) \/ SoldPriceThrows(record)

\* The body of seedSoldCars' loop, for one row of the ad file: a plain INSERT.
\* The columns left out are written as these are.
seedSoldCars(record) ==
    IF seedSoldCarsThrows(record) THEN UNCHANGED <<sold_cars, soldSeq>>
    ELSE /\ sold_cars' = sold_cars \cup
               {[id |-> soldSeq + 1,
                 maker |-> Varchar(TextOrNull(Col(record, "Maker")), 255),
                 genmodel |-> Varchar(TextOrNull(Col(record, "Genmodel")), 255),
                 genmodel_id |-> Varchar(TextOrNull(Col(record, "Genmodel_ID")), 50),
                 adv_id |-> Varchar(TextOrNull(Col(record, "Adv_ID")), 255),
                 reg_year |-> parseIntOrNull(Col(record, "Reg_year")),
                 price |-> Decimal2(FloatOrNull(Col(record, "Price")))]}
         /\ soldSeq' = soldSeq + 1

\* One iteration of seedSales' loop over the rows of the sales file.
SeedSalesRow(record) ==
    /\ phase = "sales"
    /\ makerSeq < MaxSalesSerial /\ modelSeq < MaxSalesSerial
    /\ seedSales(record)
    /\ phase' = IF seedSalesThrows(record) THEN "failed" ELSE phase
    /\ UNCHANGED <<appVars, prices, listings, listingSeq, lastMatch, req, resp, pages>>
    /\ UNCHANGED <<sold_cars, soldSeq, driverVars>>

\* seedAll: one seeding step has read its file to the end and the next one
\* starts.
StartStep(from, to) ==
    /\ phase = from
    /\ phase' = to
    /\ UNCHANGED <<appVars, dbVars, makerCache, modelCache, lastMatch, req, resp, pages>>
    /\ UNCHANGED <<soldVars, driverVars>>

StartPrices == StartStep("sales", "prices")
StartListings == StartStep("prices", "listings")
StartSoldCars == StartStep("listings", "sold_cars")

\* One iteration of seedSoldCars' loop over the rows of the ad file.
SeedSoldCarsRow(record) ==
    /\ phase = "sold_cars"
    /\ soldSeq < MaxSoldRows
    /\ seedSoldCars(record)
    /\ phase' = IF seedSoldCarsThrows(record) THEN "failed" ELSE phase
    /\ UNCHANGED <<appVars, dbVars, makerCache, modelCache, lastMatch, req, resp, pages>>
    /\ UNCHANGED <<sales, driverVars>>

\* seedSoldCars has read its file to the end and seedAll ends, or an INSERT
\* has failed and main has exited; the seed script is started again, in a
\* fresh process: both caches are empty, and seedSales comes first.
NewProcess ==
    /\ phase \in {"sold_cars", "failed"}
    /\ phase' = "sales"
    /\ makerCache' = <<>> /\ modelCache' = <<>>
    /\ lastMatch' = NoMatch
    /\ UNCHANGED <<appVars, dbVars, req, resp, pages>>
    /\ UNCHANGED <<soldVars, driverVars>>

----------------------------------------------------------------------------
(* Listing ingestion and reconciliation: seedListings *)

\* SELECT id FROM makers WHERE name ILIKE $1   ($1 = make)
MakerCandidates(make) == {m \in makers : ILike(m.name, make)}

\* The maker lookup raises an error: the make ends with a backslash that
\* the matcher comes to on some name.  (No name matches such a pattern, so
\* the scan reads every maker; the pattern of the model lookup ends with %.)
MakerLookupThrows(make) == \E m \in makers : ILikeThrows(m.name, make)

\* model.split(' ')[0]
FirstToken(model) == SplitSpace(model)[1]

\* SELECT id FROM models WHERE maker_id = $1 AND name ILIKE $2
\* ($2 = `%${model.split(' ')[0]}%`)
ModelCandidates(makerId, model) ==
    {m \in models : m.maker_id = makerId
                    /\ ILike(m.name, <<"%">> \o FirstToken(model) \o <<"%">>)}

\* LIMIT 1 of a query without ORDER BY: PostgreSQL returns whichever
\* qualifying row its scan meets first, so any candidate may be the one.
LimitOne(rows) == rows

\* `make && model`: both neither null nor ''.
Truthy(o) == ~IsNull(o) /\ Get(o) # <<>>

\* An outcome that keeps the maker's id as the result when a lookup failed.
OutcomeKeepingId(lookups, makerId, modelId, error) ==
    [lookups |-> lookups, makerId |-> makerId,
     modelId |-> IF error THEN makerId ELSE modelId, error |-> error]

Outcome(lookups, makerId, modelId, error) ==
    [lookups |-> lookups, makerId |-> makerId, modelId |-> modelId, error |-> error]

\* The outcomes of the matching block of seedListings' loop body.  Either
\* client.query may reject (the connection, the server, the pattern): the
\* catch block leaves modelId null.
MatchOutcomes(make, model) ==
    IF ~(Truthy(make) /\ Truthy(model))
    THEN {Outcome(0, Null, Null, FALSE)}
    ELSE {Outcome(1, Null, Null, TRUE)} \cup
         IF MakerLookupThrows(Get(make)) THEN {}
         ELSE IF MakerCandidates(Get(make)) = {}
         THEN {Outcome(1, Null, Null, FALSE)}
         ELSE UNION {
                {Outcome(2, Some(mk.id), Null, TRUE)} \cup
                IF ModelCandidates(mk.id, Get(model)) = {}
                THEN {Outcome(2, Some(mk.id), Null, FALSE)}
                ELSE {Outcome(2, Some(mk.id), Some(md.id), FALSE)
                        : md \in LimitOne(ModelCandidates(mk.id, Get(model)))}
                : mk \in LimitOne(MakerCandidates(Get(make)))}

ListingByUrl(url) == {l \in listings : ~IsNull(url) /\ l.url = url}

\* INSERT INTO listings (...) VALUES (...) ON CONFLICT (url) DO UPDATE SET
\* title, price_eur, mileage_km, year, model_id.  A NULL url conflicts with
\* nothing.  location, images and specs are written like currency and
\* description: by the INSERT only.
UpsertListing(row) ==
    IF ListingByUrl(row.url) # {}
    THEN (listings \ ListingByUrl(row.url))
           \cup {[l EXCEPT !.title = row.title, !.price_eur = row.price_eur,
                           !.mileage_km = row.mileage_km, !.year = row.year,
                           !.model_id = row.model_id] : l \in ListingByUrl(row.url)}
    ELSE listings \cup {[row EXCEPT !.id = listingSeq + 1]}

\* The INSERT of seedListings fails: the year is no integer.
seedListingsThrows(record) == ~FitsInteger(parseIntOrNull(Col(record, "year")))

\* The body of seedListings' loop, for one row of the listings file.  When
\* the INSERT fails the lookups have been made and the error leaves
\* seedListings.
seedListings(record) ==
    /\ LET mm == extractMakeModel(TextOrNull(Col(record, "title")))
       IN \E out \in MatchOutcomes(mm.make, mm.model) :
            /\ lastMatch' = [done |-> TRUE, make |-> mm.make, model |-> mm.model,
                             lookups |-> out.lookups, makerId |-> out.makerId,
                             modelId |-> out.modelId, error |-> out.error]
            /\ listings' =
                 IF seedListingsThrows(record) THEN listings
                 ELSE UpsertListing(
                   [id |-> 0,
                    url |-> TextOrNull(Col(record, "url")),
                    title |-> TextOrNull(Col(record, "title")),
                    price_eur |-> FloatOrNull(Col(record, "price_eur")),
                    currency |-> TextOrNull(Col(record, "currency")),
                    mileage_km |-> FloatOrNull(Col(record, "mileage_km")),
                    year |-> parseIntOrNull(Col(record, "year")),
                    description |-> TextOrNull(Col(record, "description")),
                    model_id |-> out.modelId,
                    extracted_make |-> mm.make,
                    extracted_model |-> mm.model])
    /\ listingSeq' = IF seedListingsThrows(record) THEN listingSeq
                     ELSE listingSeq + 1

\* One iteration of seedListings' loop over the rows of the listings file.
SeedListingsRow(record) ==
    /\ phase = "listings"
    /\ listingSeq < MaxListingRows
    /\ seedListings(record)
    /\ phase' = IF seedListingsThrows(record) THEN "failed" ELSE phase
    /\ UNCHANGED <<appVars, makers, models, prices, makerSeq, modelSeq,
                   makerCache, modelCache, req, resp, pages>>
    /\ UNCHANGED <<soldVars, driverVars>>

----------------------------------------------------------------------------
(* The seed script run on sample files *)

PriceRow(maker, genmodel, gid, year, price, eur) ==
    [Maker |-> maker, Genmodel |-> genmodel, Genmodel_ID |-> gid, Year |-> year,
     Entry_price |-> price, Entry_price_eur |-> eur]

\* Rows of the price file: two spellings of one maker, two models whose names
\* both hold "a4", a row without a year and one without a maker.
PriceRows ==
    { PriceRow(<<"A","b">>, <<"a","4">>, <<"g","1">>, <<"2","0","1","4">>,
               <<"2","0">>, <<"2","0">>),
      PriceRow(<<"A","B">>, <<"a","4">>, <<"g","1">>, <<"2","0","1","6">>,
               <<>>, <<"0">>),
      PriceRow(<<"A","b">>, <<"a","4","x">>, <<"g","2">>, <<>>, <<>>, <<>>),
      PriceRow(<<>>, <<"a","4">>, <<"g","1">>, <<"2","0","1","4">>, <<>>, <<>>) }

\* Further rows of the price file: one that names its maker, model and
\* genmodel id in the columns maker_canonical, model_norm and key and holds a
\* price with a fraction, and one whose year is no integer.
OtherPriceRows ==
    { [maker_canonical |-> <<"A","b">>, Maker |-> <<"Z">>, model_norm |-> <<"a","4">>,
       key |-> <<"g","1">>, Year |-> <<"2","0","1","5">>,
       Entry_price |-> <<"2","0",".","5">>, Entry_price_eur |-> <<"2","0",".","5">>],
      PriceRow(<<"A","b">>, <<"a","4">>, <<"g","1">>, <<"2","0","1","4",".","5">>,
               <<"2","0">>, <<"2","0">>) }

ListingRow(url, title, price, year) ==
    [url |-> url, title |-> title, price_eur |-> price, year |-> year,
     mileage_km |-> <<>>, currency |-> <<"E">>]

\* Rows of the listings file: a make that equals a maker's name but for case,
\* one that is only part of it, a make and a model holding a LIKE wildcard
\* (with a price that is no number), a title of one word and an empty title.
ListingRows ==
    { ListingRow(<<"u">>, <<"a","b"," ","a","4"," ","2",".","0"," ","T">>,
                 <<"1","8">>, <<"2","0","1","5">>),
      ListingRow(<<"u">>, <<"A"," ","a","4">>, <<"0">>, <<>>),
      ListingRow(<<>>, <<"_","b"," ","a","_">>, <<"x">>, <<"2","0","1","5">>),
      ListingRow(<<"v">>, <<"A","b">>, <<"1","8">>, <<>>),
      ListingRow(<<"v">>, <<>>, <<"1","8">>, <<>>) }

\* A further row of the listings file: a make that is a LIKE pattern ending
\* with the escape character, which fails the maker lookup.
EscapeListingRows ==
    { ListingRow(<<"w">>, <<"%","\\"," ","a","4">>, <<"1","8">>, <<>>) }

\* Rows of the sales file and of the ad file.
SalesRow(maker, genmodel, gid, units) ==
    [Maker |-> maker, Genmodel |-> genmodel, Genmodel_ID |-> gid,
     units |-> [y \in SalesYears |-> IF y = 2001 THEN units ELSE <<>>]]

SalesRows ==
    { SalesRow(<<"A","B">>, <<"a","4">>, <<"g","1">>, <<"5">>),
      SalesRow(<<"A","b">>, <<"a","4","x">>, <<"g","2">>, <<"1",",","0">>) }

\* A further row of the sales file: units that are no integer.
OtherSalesRows ==
    { SalesRow(<<"A","b">>, <<"a","4">>, <<"g","1">>, <<"1",".","5">>) }

SoldRow(maker, genmodel, gid, advId, regYear, price) ==
    [Maker |-> maker, Genmodel |-> genmodel, Genmodel_ID |-> gid,
     Adv_ID |-> advId, Reg_year |-> regYear, Price |-> price]

SoldRows ==
    { SoldRow(<<"A","b">>, <<"a","4">>, <<"g","1">>, <<"x","1">>,
              <<"2","0","1","5">>, <<"1","8">>) }

\* A further row of the ad file: a Genmodel_ID of 51 characters.
LongSoldRows ==
    { SoldRow(<<"A","b">>, <<"a","4">>, [i \in 1..51 |-> "g"], <<"x","2">>,
              <<"2","0","1","5">>, <<"1","8">>) }

NoRequest == [sent |-> FALSE]

InitSeed ==
    /\ makers = {} /\ models = {} /\ prices = {} /\ listings = {}
    /\ makerSeq = 0 /\ modelSeq = 0 /\ listingSeq = 0
    /\ makerCache = <<>> /\ modelCache = <<>>
    /\ phase = "sales"
    /\ lastMatch = NoMatch
    /\ req = NoRequest /\ resp = NoRequest /\ pages = <<>>
    /\ sales = {} /\ sold_cars = {} /\ soldSeq = 0
    /\ run = NoRun /\ procs = NoProcs /\ titleIn = Null /\ extracted = Null
    /\ AppIdle

NextSeed ==
    \/ \E record \in SalesRows : SeedSalesRow(record)
    \/ StartPrices
    \/ \E record \in PriceRows \cup OtherPriceRows : SeedPricesRow(record)
    \/ StartListings
    \/ \E record \in ListingRows \cup EscapeListingRows : SeedListingsRow(record)
    \/ StartSoldCars
    \/ \E record \in SoldRows \cup LongSoldRows : SeedSoldCarsRow(record)
    \/ NewProcess

SpecSeed == InitSeed /\ [][NextSeed]_vars

----------------------------------------------------------------------------
(* seedAll run again and again, each run reading its four files to the end *)

SeqsUpTo(S, n) == UNION {[1..k -> S] : k \in 0..n}

\* The rows of the price file whose INSERT fails.
FailingPriceRows == {record \in OtherPriceRows : seedPricesThrows(record)}

\* The source files of a run: Sales_table.csv, Price_table_enriched.csv,
\* versicar_cars.csv and Ad_table.csv.
FileSets ==
    [sales : SeqsUpTo(SalesRows \cup OtherSalesRows, 1),
     prices : SeqsUpTo(PriceRows \cup FailingPriceRows, MaxFileRows),
     listings : SeqsUpTo(ListingRows, MaxFileRows),
     sold_cars : SeqsUpTo(SoldRows, 1)]

Reverse(f) == [i \in 1..Len(f) |-> f[Len(f) + 1 - i]]

\* The same files with their rows in the opposite order.
Reversed(files) ==
    [sales |-> Reverse(files.sales), prices |-> Reverse(files.prices),
     listings |-> Reverse(files.listings), sold_cars |-> Reverse(files.sold_cars)]

\* The tables as a run finds them, with the last values of the serial
\* columns of makers and models.
Tables ==
    [makers |-> makers, models |-> models, prices |-> prices, sales |-> sales,
     listings |-> listings, sold_cars |-> sold_cars,
     makerSeq |-> makerSeq, modelSeq |-> modelSeq]

InitRerun ==
    /\ makers = {} /\ models = {} /\ prices = {} /\ listings = {}
    /\ makerSeq = 0 /\ modelSeq = 0 /\ listingSeq = 0
    /\ makerCache = <<>> /\ modelCache = <<>>
    /\ phase = "sales"
    /\ lastMatch = NoMatch
    /\ req = NoRequest /\ resp = NoRequest /\ pages = <<>>
    /\ sales = {} /\ sold_cars = {} /\ soldSeq = 0
    /\ \E files \in FileSets :
          run = [no |-> 1, files |-> files, prev |-> Null, file |-> "sales", pos |-> 1,
                 start |-> [makers |-> {}, models |-> {}, prices |-> {},
                            sales |-> {}, listings |-> {}, sold_cars |-> {},
                            makerSeq |-> 0, modelSeq |-> 0]]
    /\ procs = NoProcs /\ titleIn = Null /\ extracted = Null
    /\ AppIdle

\* The file the run is reading (run.file names it, also after the run has
\* failed; run.pos is the row that comes next), and whether it has a row left.
CurrentFile == run.files[phase]
HasRow == phase \in DOMAIN run.files /\ run.pos <= Len(CurrentFile)

RunSales ==
    /\ phase = "sales" /\ HasRow
    /\ seedSales(CurrentFile[run.pos])
    /\ run' = [run EXCEPT !.pos = @ + 1]
    /\ phase' = IF seedSalesThrows(CurrentFile[run.pos]) THEN "failed" ELSE phase
    /\ UNCHANGED <<appVars, prices, listings, listingSeq, lastMatch, req, resp, pages,
                   sold_cars, soldSeq, procs, titleIn, extracted>>

RunPrices ==
    /\ phase = "prices" /\ HasRow
    /\ seedPrices(CurrentFile[run.pos])
    /\ run' = [run EXCEPT !.pos = @ + 1]
    /\ phase' = IF seedPricesThrows(CurrentFile[run.pos]) THEN "failed" ELSE phase
    /\ UNCHANGED <<appVars, listings, listingSeq, lastMatch, req, resp, pages,
                   soldVars, procs, titleIn, extracted>>

RunListings ==
    /\ phase = "listings" /\ HasRow
    /\ seedListings(CurrentFile[run.pos])
    /\ run' = [run EXCEPT !.pos = @ + 1]
    /\ phase' = IF seedListingsThrows(CurrentFile[run.pos]) THEN "failed" ELSE phase
    /\ UNCHANGED <<appVars, makers, models, prices, makerSeq, modelSeq, makerCache,
                   modelCache, req, resp, pages,
                   soldVars, procs, titleIn, extracted>>

RunSoldCars ==
    /\ phase = "sold_cars" /\ HasRow
    /\ seedSoldCars(CurrentFile[run.pos])
    /\ run' = [run EXCEPT !.pos = @ + 1]
    /\ phase' = IF seedSoldCarsThrows(CurrentFile[run.pos]) THEN "failed" ELSE phase
    /\ UNCHANGED <<appVars, dbVars, makerCache, modelCache, lastMatch, req, resp,
                   pages, sales, procs, titleIn, extracted>>

\* seedAll: the loop over one file has ended and the next seeding step starts,
\* or the run ends.
NextFile ==
    /\ phase \in DOMAIN run.files /\ ~HasRow
    /\ phase' = CASE phase = "sales" -> "prices"
                  [] phase = "prices" -> "listings"
                  [] phase = "listings" -> "sold_cars"
                  [] phase = "sold_cars" -> "done"
    /\ run' = [run EXCEPT !.pos = 1, !.file = phase']
    /\ UNCHANGED <<appVars, dbVars, makerCache, modelCache, lastMatch, req, resp, pages,
                   soldVars, procs, titleIn, extracted>>

\* The seed script is started again, in a fresh process (both caches empty),
\* on the same files or on the files with their rows in another order.
Restart ==
    /\ phase = "done" /\ run.no < MaxRuns
    /\ phase' = "sales"
    /\ makerCache' = <<>> /\ modelCache' = <<>>
    /\ lastMatch' = NoMatch
    /\ \E files \in {run.files, Reversed(run.files)} :
          run' = [no |-> run.no + 1, files |-> files, prev |-> Some(run.files),
                  file |-> "sales", pos |-> 1, start |-> Tables]
    /\ UNCHANGED <<appVars, dbVars, req, resp, pages, soldVars, procs, titleIn, extracted>>

NextRerun ==
    \/ RunSales
    \/ RunPrices
    \/ RunListings
    \/ RunSoldCars
    \/ NextFile
    \/ Restart

SpecRerun == InitRerun /\ [][NextRerun]_vars

----------------------------------------------------------------------------
(* GET /api/insights/price-delta: the joined row of a listing *)

ModelOf(l) == {m \in models : ~IsNull(l.model_id) /\ m.id = Get(l.model_id)}
MakerOf(l) == {mk \in makers : \E m \in ModelOf(l) : mk.id = m.maker_id}


\* ABS(p2.year - COALESCE(l.year, 0))
YearDistance(l, p) == Abs(p.year - (IF IsNull(l.year) THEN 0 ELSE Get(l.year)))

PricesOf(l) == {p \in prices : \E m \in ModelOf(l) : p.model_id = m.id}

\* The rows that sort first under ORDER BY ABS(p2.year - COALESCE(l.year, 0)).
ClosestPrices(l) ==
    {p \in PricesOf(l) : \A o \in PricesOf(l) : YearDistance(l, p) <= YearDistance(l, o)}

\* The row the LEFT JOIN LATERAL (... ORDER BY ... LIMIT 1) p gives a listing:
\* ORDER BY names no second key, so among price points at the same distance
\* PostgreSQL may return any; without a price point p is all NULL.
NullPrice == [entry_price_eur |-> Null, year |-> Null]

LateralRows(l) ==
    IF ClosestPrices(l) = {} THEN {NullPrice}
    ELSE {[entry_price_eur |-> p.entry_price_eur, year |-> Some(p.year)]
            : p \in ClosestPrices(l)}

\* One execution of a query: the row LATERAL picked for each listing.
Executions == {f \in [listings -> UNION {LateralRows(l) : l \in listings}] :
                 \A l \in listings : f[l] \in LateralRows(l)}

\* The subtraction the other way round.
PriceDeltaSwapped(entry, price) == price - entry

\* (p.entry_price_eur - l.price_eur) AS price_delta, on two finite prices
\* counted in the same unit.
PriceDelta(entry, price) == entry - price

\* ROUND(((p.entry_price_eur - l.price_eur) / p.entry_price_eur * 100)::numeric, 2),
\* in hundredths of a percent point, on two finite prices counted in the
\* same unit (entry not 0).
PriceDeltaPercent(entry, price) == RoundDiv(PriceDelta(entry, price) * 10000, entry)

MaxOf(a, b) == IF a < b THEN b ELSE a

\* The decimal places two finite numerics are both counted in.
CommonPlaces(a, b) == MaxOf(Places(a), Places(b))

\* numeric < numeric: -Infinity, the finite values, Infinity, NaN, in this
\* order, and NaN equals NaN.
NumLess(a, b) ==
    IF a = NaN THEN FALSE
    ELSE IF b = NaN THEN TRUE
    ELSE IF a = Infinity THEN FALSE
    ELSE IF b = Infinity THEN TRUE
    ELSE IF b = NegInfinity THEN FALSE
    ELSE IF a = NegInfinity THEN TRUE
    ELSE Units(a, CommonPlaces(a, b)) < Units(b, CommonPlaces(a, b))

\* numeric - numeric
NumMinus(a, b) ==
    IF a = NaN \/ b = NaN THEN NaN
    ELSE IF ~IsFinite(a) THEN (IF b = a THEN NaN ELSE a)
    ELSE IF ~IsFinite(b) THEN Negated(b)
    ELSE Normal(PriceDelta(Units(a, CommonPlaces(a, b)), Units(b, CommonPlaces(a, b))),
                CommonPlaces(a, b))

\* numeric / 0 raises "division by zero" unless the dividend is NaN.
ZeroDivide(entry, price) == entry = <<0>> /\ NumMinus(entry, price) # NaN

\* (entry - price) / entry * 100 is a quotient of two finite numbers: entry
\* and price are finite and entry is not 0.
IsRatio(entry, price) == IsFinite(entry) /\ IsFinite(price) /\ entry # <<0>>

\* The value of (entry - price) / entry * 100 when it is no such quotient
\* (and no division by zero): NaN, an infinity, or 0 for a finite
\* difference over an infinite entry.
SpecialPercent(entry, price) ==
    LET d == NumMinus(entry, price)
    IN IF d = NaN \/ entry = NaN THEN NaN
       ELSE IF ~IsFinite(d) /\ ~IsFinite(entry) THEN NaN
       ELSE IF ~IsFinite(d) THEN (IF entry[1] > 0 THEN d ELSE Negated(d))
       ELSE <<0>>

\* The price_delta_percent column, in hundredths of a percent point when
\* finite.
Percent(entry, price) ==
    IF ~IsRatio(entry, price) THEN SpecialPercent(entry, price)
    ELSE <<PriceDeltaPercent(Units(entry, CommonPlaces(entry, price)),
                             Units(price, CommonPlaces(entry, price)))>>

----------------------------------------------------------------------------
(* The request and its WHERE clause *)

\* A query parameter is Null when absent, else Some(text).
\* `if (maker)`: present and not ''.
Supplied(param) == ~IsNull(param) /\ Get(param) # <<>>

\* Number(text) of a query parameter; node-postgres sends it as its text, NaN
\* and Infinity included.
JsNumber(text) == ParseNumber(text)

Contains(pattern) == <<"%">> \o pattern \o <<"%">>

MakerFilter(l, q) ==
    Supplied(q.maker) =>
        \/ ILikeCol(l.extracted_make, Contains(Get(q.maker)))
        \/ \E mk \in MakerOf(l) : ILike(mk.name, Contains(Get(q.maker)))

ModelFilter(l, q) ==
    Supplied(q.model) =>
        \/ ILikeCol(l.extracted_model, Contains(Get(q.model)))
        \/ \E m \in ModelOf(l) : ILike(m.name, Contains(Get(q.model)))

MinPriceFilter(l, q) ==
    Supplied(q.minPrice) =>
        ~IsNull(l.price_eur) /\ ~NumLess(l.price_eur, JsNumber(Get(q.minPrice)))

MaxPriceFilter(l, q) ==
    Supplied(q.maxPrice) =>
        ~IsNull(l.price_eur) /\ ~NumLess(JsNumber(Get(q.maxPrice)), l.price_eur)

\* ((p.entry_price_eur - l.price_eur) / p.entry_price_eur * 100) < bound and
\* > bound, on the exact quotient: with finite operands the comparison is
\* multiplied through by entry and by the bound's decimal places.
RatioLess(entry, price, bound, greater) ==
    LET k == CommonPlaces(entry, price)
        E == Units(entry, k)
        D == PriceDelta(E, Units(price, k))
        lhs == D * 100 * Pow10(Places(bound))
        rhs == bound[1] * E
    IN IF ~IsFinite(bound) THEN NumLess(<<0>>, bound) # greater
       ELSE IF (E > 0) # greater THEN lhs < rhs
       ELSE lhs > rhs

PercentLess(entry, price, bound) ==
    IF IsRatio(entry, price) THEN RatioLess(entry, price, bound, FALSE)
    ELSE NumLess(SpecialPercent(entry, price), bound)

PercentGreater(entry, price, bound) ==
    IF IsRatio(entry, price) THEN RatioLess(entry, price, bound, TRUE)
    ELSE NumLess(bound, SpecialPercent(entry, price))

PercentAtLeast(entry, price, bound) == ~PercentLess(entry, price, bound)

PercentAtMost(entry, price, bound) == ~PercentGreater(entry, price, bound)

\* `if (minDiscount !== undefined)`: every present value, '' included.
MinDiscountFilter(l, p, q) ==
    ~IsNull(q.minDiscount) =>
        /\ ~IsNull(p.entry_price_eur) /\ ~IsNull(l.price_eur)
        /\ PercentAtLeast(p.entry_price_eur, l.price_eur,
                          JsNumber(Get(q.minDiscount)))

MaxDiscountFilter(l, p, q) ==
    ~IsNull(q.maxDiscount) =>
        /\ ~IsNull(p.entry_price_eur) /\ ~IsNull(l.price_eur)
        /\ PercentAtMost(p.entry_price_eur, l.price_eur,
                         JsNumber(Get(q.maxDiscount)))

\* The conjuncts of whereClause that hold no division.
PlainFilters(l, p, q) ==
    /\ MakerFilter(l, q) /\ ModelFilter(l, q)
    /\ MinPriceFilter(l, q) /\ MaxPriceFilter(l, q)
    /\ ~IsNull(p.entry_price_eur)
    /\ ~IsNull(l.price_eur)

\* A division by p.entry_price_eur = 0 is evaluated: PostgreSQL raises
\* "division by zero" and the query fails.  (numeric / is strict: with a NULL
\* operand it gives NULL and divides nothing.)
DividesByZero(l, p, q) ==
    PlainFilters(l, p, q) /\ ZeroDivide(p.entry_price_eur, l.price_eur)

\* whereClause: the filters joined by AND, for a row on which no division by
\* zero is evaluated (DividesByZero tells when one is).
WhereClause(l, p, q) ==
    /\ PlainFilters(l, p, q)
    /\ MinDiscountFilter(l, p, q) /\ MaxDiscountFilter(l, p, q)

----------------------------------------------------------------------------
(* Sort order *)

\* sortBy is held as [dash, rest]: the parameter's text is "-" followed by
\* rest when dash, else rest.  Null is the absent parameter.
DefaultSortBy == [dash |-> FALSE, rest |-> "price_delta_percent"]
SortByOf(q) == IF IsNull(q.sortBy) THEN DefaultSortBy ELSE Get(q.sortBy)

\* sortBy.startsWith('-') ? 'DESC' : 'ASC'
SortDesc(q) == SortByOf(q).dash
\* sortBy.replace(/^-/, '')
SortColumn(q) == SortByOf(q).rest

validSortColumns ==
    [price_delta_percent |-> "price_delta_percent",
     price_delta         |-> "price_delta",
     price_eur           |-> "listing_price",
     entry_price_eur     |-> "original_price",
     listing_price       |-> "listing_price",
     original_price      |-> "original_price",
     listing_year        |-> "listing_year",
     mileage_km          |-> "mileage_km",
     title               |-> "title"]

\* validSortColumns is an object literal: a lookup also finds what it
\* inherits from Object.prototype, and each of those values is truthy.
ObjectPrototypeKeys ==
    {"constructor", "toString", "toLocaleString", "valueOf", "hasOwnProperty",
     "isPrototypeOf", "propertyIsEnumerable", "__proto__", "__defineGetter__",
     "__defineSetter__", "__lookupGetter__", "__lookupSetter__"}

NotAColumn == "<inherited>"

\* validSortColumns[sortColumn] || 'price_delta_percent'
OrderBy(q) ==
    IF SortColumn(q) \in DOMAIN validSortColumns THEN validSortColumns[SortColumn(q)]
    ELSE IF SortColumn(q) \in ObjectPrototypeKeys THEN NotAColumn
    ELSE "price_delta_percent"

\* Character order of the "C" collation on the characters of the model.
Ascii == <<" ", "%", "-", ".">> \o Digits \o Uppers \o <<"_">> \o Lowers
CharCode(c) == IndexIn(c, Ascii)

RECURSIVE TextLess(_, _)
TextLess(a, b) ==
    IF b = <<>> THEN FALSE
    ELSE IF a = <<>> THEN TRUE
    ELSE IF Head(a) = Head(b) THEN TextLess(Tail(a), Tail(b))
    ELSE CharCode(Head(a)) < CharCode(Head(b))

\* a and b are the non-null values of column col in two rows.
ValueLess(col, a, b) ==
    IF col = "title" THEN TextLess(Get(a), Get(b)) ELSE NumLess(a, b)

\* Row a may come right before row b under ORDER BY col ASC|DESC NULLS LAST.
MayPrecede(a, b, col, desc) ==
    IF IsNull(b[col]) THEN TRUE
    ELSE IF IsNull(a[col]) THEN FALSE
    ELSE IF desc THEN ~ValueLess(col, a[col], b[col])
    ELSE ~ValueLess(col, b[col], a[col])

InsertAt(t, i, x) == SubSeq(t, 1, i - 1) \o <<x>> \o SubSeq(t, i, Len(t))

\* The orders ORDER BY may give the rows: rows with equal keys come in any
\* order.  Every sorted sequence of rows is a sorted sequence of the other
\* rows with one row put in at a place where both its neighbours allow it.
RECURSIVE Orderings(_, _, _)
Orderings(rows, col, desc) ==
    IF rows = {} THEN {<<>>}
    ELSE LET x == CHOOSE r \in rows : TRUE
         IN UNION
              {{InsertAt(t, i, x) :
                   i \in {j \in 1..(Len(t) + 1) :
                            /\ j = 1 \/ MayPrecede(t[j - 1], x, col, desc)
                            /\ j > Len(t) \/ MayPrecede(x, t[j], col, desc)}}
                 : t \in Orderings(rows \ {x}, col, desc)}

Min(a, b) == IF a < b THEN a ELSE b

\* LIMIT limit OFFSET offset
LimitOffset(t, limit, offset) == SubSeq(t, offset + 1, Min(Len(t), offset + limit))

----------------------------------------------------------------------------
(* The two queries and the response *)

\* A row of price_matches.
PriceMatch(l, p) ==
    [id |-> l.id, url |-> l.url, title |-> l.title,
     listing_price |-> l.price_eur, listing_year |-> l.year,
     mileage_km |-> l.mileage_km,
     original_price |-> p.entry_price_eur, original_year |-> p.year,
     make |-> l.extracted_make, model |-> l.extracted_model,
     matched_maker |-> IF MakerOf(l) = {} THEN Null
                       ELSE Some((CHOOSE mk \in MakerOf(l) : TRUE).name),
     matched_model |-> IF ModelOf(l) = {} THEN Null
                       ELSE Some((CHOOSE m \in ModelOf(l) : TRUE).name),
     price_delta |-> NumMinus(p.entry_price_eur, l.price_eur),
     price_delta_percent |-> Percent(p.entry_price_eur, l.price_eur)]

\* SELECT * FROM price_matches WHERE price_delta_percent IS NOT NULL, for the
\* execution e.
PriceMatches(e, q) ==
    {PriceMatch(l, e[l]) : l \in {x \in listings : WhereClause(x, e[x], q)}}

\* countQuery: COUNT(*) of the listings that pass whereClause.
CountQuery(e, q) == Cardinality({l \in listings : WhereClause(l, e[l], q)})

\* `r.x ? Number(r.x) : null` on an integer column: 0 is falsy.
IntOrNull(o) == IF o = Some(0) THEN Null ELSE o

\* `r.x ? Number(r.x) : null` on a numeric column: it arrives as text, every
\* text of a number is truthy, and res.json writes NaN and the infinities as
\* null.
JsonNumber(o) == IF IsNull(o) \/ ~IsFinite(o) THEN Null ELSE o

\* `r.make || r.matched_maker`
OrElse(a, b) == IF Truthy(a) THEN a ELSE b

\* One element of the response's data.
ResponseRow(r) ==
    [id |-> r.id, url |-> r.url, title |-> r.title,
     listing_price |-> JsonNumber(r.listing_price),
     listing_year |-> IntOrNull(r.listing_year),
     mileage_km |-> JsonNumber(r.mileage_km),
     original_price |-> JsonNumber(r.original_price),
     original_year |-> IntOrNull(r.original_year),
     make |-> OrElse(r.make, r.matched_maker),
     model |-> OrElse(r.model, r.matched_model),
     price_delta |-> JsonNumber(r.price_delta),
     price_delta_percent |-> JsonNumber(r.price_delta_percent)]

\* A message is held as the pieces it is put together from.
DivisionByZero == <<"division by zero">>

\* `ORDER BY ${orderBy}` with an inherited property: the text of a function
\* ("function toString() { [native code] }", for constructor "function
\* Object() ...") or of Object.prototype ("[object Object]"), where the
\* parser of PostgreSQL stops at the second token.
SyntaxError(key) ==
    <<"syntax error at or near \"",
      IF key = "constructor" THEN "Object"
      ELSE IF key = "__proto__" THEN "["
      ELSE key,
      "\"">>

\* The catch of the handler: status 500 with the error's message (details,
\* the stack of the error, is left out).
ErrorResponse(message) ==
    [sent |-> TRUE, status |-> 500,
     error |-> "Failed to fetch price deltas", message |-> message]

\* The main query fails: ORDER BY names no column, or a division by zero.
QueryFails(e, q) ==
    \/ OrderBy(q) = NotAColumn
    \/ \E l \in listings : DividesByZero(l, e[l], q)

\* The message of the main query's error: the text is parsed before a row
\* is read.
QueryError(q) ==
    IF OrderBy(q) = NotAColumn THEN SyntaxError(SortColumn(q)) ELSE DivisionByZero

\* countQuery divides only in the minDiscount / maxDiscount conjuncts.
CountQueryFails(e, q) ==
    /\ ~IsNull(q.minDiscount) \/ ~IsNull(q.maxDiscount)
    /\ \E l \in listings : DividesByZero(l, e[l], q)

\* Promise.all rejects with the error of the query that fails first.
Failures(e1, e2, q) ==
    (IF QueryFails(e1, q) THEN {QueryError(q)} ELSE {})
        \cup (IF CountQueryFails(e2, q) THEN {DivisionByZero} ELSE {})

\* The responses the handler may give to request q: e1 and e2 are the
\* executions of query and countQuery, which Promise.all runs side by side.
Responses(q) ==
    UNION { IF Failures(e1, e2, q) # {}
            THEN {ErrorResponse(m) : m \in Failures(e1, e2, q)}
            ELSE {[sent |-> TRUE, status |-> 200,
                   data |-> [i \in DOMAIN t |-> ResponseRow(t[i])],
                   total |-> CountQuery(e2, q),
                   limit |-> q.limit, offset |-> q.offset]
                    : t \in {LimitOffset(o, q.limit, q.offset)
                               : o \in Orderings(PriceMatches(e1, q), OrderBy(q),
                                                 SortDesc(q))}}
          : e1 \in Executions, e2 \in Executions }

----------------------------------------------------------------------------
(* The API server over a seeded database *)

\* The body of a 200 response, as res.json writes it.
JsonBody(r) ==
    [data |-> r.data, total |-> r.total, limit |-> r.limit, offset |-> r.offset]

\* The client sends request q for a first page and the handler of
\* GET /api/insights/price-delta answers it.  pages holds the bodies the
\* handler has answered with since.
PriceDeltaRequest(q) ==
    /\ ~req.sent
    /\ req' = q
    /\ resp' \in Responses(q)
    /\ pages' = IF resp'.status = 200 THEN <<JsonBody(resp')>> ELSE <<>>
    /\ UNCHANGED <<appVars, dbVars, makerCache, modelCache, phase, lastMatch>>
    /\ UNCHANGED <<soldVars, driverVars>>

\* The client asks for the page after the one it asked for last: the same
\* parameters, offset advanced by limit.  The handler serves whatever offset
\* it is given, also one past the last row.
NextPage ==
    /\ req.sent
    /\ req.offset + req.limit <= MaxOffset
    /\ req' = [req EXCEPT !.offset = @ + req.limit]
    /\ resp' \in Responses(req')
    /\ pages' = IF resp'.status = 200 THEN Append(pages, JsonBody(resp')) ELSE pages
    /\ UNCHANGED <<appVars, dbVars, makerCache, modelCache, phase, lastMatch>>
    /\ UNCHANGED <<soldVars, driverVars>>

\* A stored listing, as seedListings writes it for a row with this title.
StoredRow(id, title, price, year, modelId, extractedData) ==
    [id |-> id, url |-> Some(<<"u">> \o NatText(id)), title |-> Some(title),
     price_eur |-> price, currency |-> Some(<<"E">>), mileage_km |-> Null,
     year |-> year, description |-> Null, model_id |-> modelId,
     extracted_make |-> extractedData.make,
     extracted_model |-> extractedData.model]

StoredListing(id, title, price, year, modelId) ==
    StoredRow(id, title, price, year, modelId, extractMakeModel(Some(title)))

SampleListings ==
    { StoredListing(1, <<"A","b"," ","a","4">>, Some(18000), Some(2015), Some(1)),
      StoredListing(2, <<"A","b"," ","a","4"," ","2",".","0"," ","T">>,
                    Some(18000), Null, Some(1)),
      StoredListing(3, <<"A","b"," ","a","4">>, Some(29999), Some(2016), Some(1)),
      StoredListing(4, <<"A","b"," ","a","4">>, Some(0), Some(2015), Some(1)),
      StoredListing(5, <<"A","b"," ","a","4">>, Null, Some(2015), Some(1)),
      StoredListing(6, <<"B"," ","x">>, Some(18000), Some(2015), Null),
      StoredListing(7, <<"A","b"," ","a","4">>, Some(0 - 1), Some(2015), Some(1)),
      StoredListing(8, <<"A","b"," ","a","4">>, NaN, Some(2015), Some(1)) }

PricePoint(year, eur) ==
    [model_id |-> 1, year |-> year, entry_price |-> eur, entry_price_eur |-> eur]

\* Price histories of the one model of the catalog: two points at the same
\* distance of 2015, a point without a price, a price of zero beside another
\* and alone, one point, a negative price, a price that is NaN, none.
PriceTables ==
    { {PricePoint(2014, Some(20000)), PricePoint(2016, Some(30000))},
      {PricePoint(2014, Null), PricePoint(2016, Some(20000))},
      {PricePoint(2014, Some(0)), PricePoint(2016, Some(20000))},
      {PricePoint(2014, Some(0))},
      {PricePoint(2016, Some(30000))},
      {PricePoint(2016, Some(0 - 20000))},
      {PricePoint(2016, NaN)},
      {} }

SortParams ==
    { Null,
      Some([dash |-> TRUE,  rest |-> "price_delta_percent"]),
      Some([dash |-> FALSE, rest |-> "price_eur"]),
      Some([dash |-> TRUE,  rest |-> "listing_year"]),
      Some([dash |-> FALSE, rest |-> "title"]),
      Some([dash |-> FALSE, rest |-> "foo"]),
      Some([dash |-> TRUE,  rest |-> "foo"]),
      Some([dash |-> FALSE, rest |-> "constructor"]) }

FilterCount(q) ==
    Cardinality({k \in {"maker", "model", "minPrice", "maxPrice",
                        "minDiscount", "maxDiscount"} : ~IsNull(q[k])})

\* The first-page requests of the model.
Requests ==
    {q \in [sent : {TRUE},
            maker : {Null, Some(<<"a">>)},
            model : {Null, Some(<<"x">>)},
            minPrice : {Null, Some(<<"1","8","0","0","0">>)},
            maxPrice : {Null, Some(<<"1","8","0","0","0">>)},
            minDiscount : {Null, Some(<<"0">>), Some(<<"1","0">>)},
            maxDiscount : {Null, Some(<<"0">>)},
            sortBy : SortParams,
            limit : 1..MaxLimit,
            offset : {0}] : FilterCount(q) <= MaxFilters}

Init ==
    /\ makers = {[id |-> 1, name |-> <<"A","b">>]}
    /\ models = {[id |-> 1, maker_id |-> 1, name |-> <<"a","4">>,
                  genmodel_id |-> <<"g","1">>]}
    /\ prices \in PriceTables
    /\ listings \in {L \in SUBSET SampleListings : Cardinality(L) <= MaxListings}
    /\ makerSeq = 1 /\ modelSeq = 1 /\ listingSeq = Cardinality(SampleListings)
    /\ makerCache = <<>> /\ modelCache = <<>>
    /\ phase = "listings"
    /\ lastMatch = NoMatch
    /\ req = NoRequest /\ resp = NoRequest /\ pages = <<>>
    /\ sales = {} /\ sold_cars = {} /\ soldSeq = 0
    /\ run = NoRun /\ procs = NoProcs /\ titleIn = Null /\ extracted = Null
    /\ AppIdle

\* The client is done with the result of its last request.
Done ==
    /\ req.sent
    /\ req' = NoRequest /\ resp' = NoRequest /\ pages' = <<>>
    /\ UNCHANGED <<appVars, dbVars, makerCache, modelCache, phase, lastMatch>>
    /\ UNCHANGED <<soldVars, driverVars>>

Next ==
    \/ \E q \in Requests : PriceDeltaRequest(q)
    \/ NextPage
    \/ Done

Spec == Init /\ [][Next]_vars

----------------------------------------------------------------------------
(* Properties of the price-delta endpoint, checked under Spec *)

Answered == req.sent /\ resp.sent /\ resp.status = 200
Rows == {resp.data[i] : i \in DOMAIN resp.data}
RowIds == {r.id : r \in Rows}
ListingOf(r) == CHOOSE l \in listings : l.id = r.id

\* c is n / d rounded to the nearest integer, halves away from zero.
IsRounded(c, n, d) ==
    /\ 2 * Abs(c * d - n) <= Abs(d)
    /\ 2 * Abs(c * d - n) = Abs(d) => Abs(c * d) > Abs(n)

\* No listing has two price points at the same, least distance of its year.
NoTies == \A l \in listings : Cardinality(LateralRows(l)) = 1

\* The row holds both prices as numbers; a price stored as NaN or as an
\* infinity is null in the response.
HasBothPrices(r) == ~IsNull(r.original_price) /\ ~IsNull(r.listing_price)

\* C1 (as amended): in every returned row that holds a listing price and a
\* reference price, price_delta = original_price - listing_price and
\* price_delta_percent is price_delta / original_price * 100 rounded to 2
\* decimals; price_delta is positive exactly when the listing is cheaper than
\* the reference price and negative exactly when it is pricier; for a
\* positive reference price a positive percent means cheaper and a negative
\* percent pricier, for a negative reference price the other way round, and
\* the percent of a listing that differs from the reference by less than
\* 0.005 % of it is 0.00.  A row without one of the two prices (the stored
\* price is NaN) has neither price_delta nor price_delta_percent.
C1_DeltaAndPercent ==
    Answered =>
        \A r \in Rows :
            IF ~HasBothPrices(r)
            THEN IsNull(r.price_delta) /\ IsNull(r.price_delta_percent)
            ELSE LET o == Get(r.original_price)
                     p == Get(r.listing_price)
                     d == Get(r.price_delta)
                     c == Get(r.price_delta_percent)
                 IN /\ d = o - p
                    /\ IsRounded(c, d * 10000, o)
                    /\ (d > 0 <=> p < o) /\ (d < 0 <=> p > o)
                    /\ o > 0 => (c > 0 => p < o) /\ (c < 0 => p > o)
                    /\ o < 0 => (c > 0 => p > o) /\ (c < 0 => p < o)
                    /\ c = 0 => 2 * 10000 * Abs(d) < Abs(o)

\* A returned listing that is cheaper than its reference price, with a
\* percent that rounds to 0.00.
C1_Witness ==
    /\ Answered
    /\ \E r \in Rows : /\ HasBothPrices(r)
                       /\ Get(r.listing_price) < Get(r.original_price)
                       /\ Get(r.price_delta) > 0
                       /\ Get(r.price_delta_percent) = 0

\* C1 as stated: every returned row holds price_delta and
\* price_delta_percent, and both are positive exactly when the listing is
\* cheaper than the reference price and negative exactly when it is pricier.
C1_Original ==
    Answered =>
        \A r \in Rows :
            /\ HasBothPrices(r)
            /\ ~IsNull(r.price_delta) /\ ~IsNull(r.price_delta_percent)
            /\ LET o == Get(r.original_price)
                   p == Get(r.listing_price)
                   d == Get(r.price_delta)
                   c == Get(r.price_delta_percent)
               IN /\ d = o - p
                  /\ IsRounded(c, d * 10000, o)
                  /\ (d > 0 <=> p < o) /\ (d < 0 <=> p > o)
                  /\ (c > 0 <=> p < o) /\ (c < 0 <=> p > o)

\* C2: a listing whose reference price is zero is left out of the result and
\* never makes the request fail (a request whose sort key the query accepts).
C2_ZeroReferenceLeftOut ==
    (req.sent /\ resp.sent /\ OrderBy(req) # NotAColumn) =>
        \A l \in listings :
            (\A p \in LateralRows(l) : p.entry_price_eur = Some(0)) =>
                resp.status = 200 /\ l.id \notin RowIds

RECURSIVE SumLen(_)
SumLen(ps) == IF ps = <<>> THEN 0 ELSE Len(Head(ps).data) + SumLen(Tail(ps))

\* The client has asked for the pages at offsets 0, limit, 2*limit, ... up to
\* the last one or past it, and each of its requests was answered with a
\* page.
PagingComplete ==
    /\ Answered /\ req.offset + req.limit >= resp.total
    /\ Len(pages) = req.offset \div req.limit + 1

\* C3: paging with a fixed limit returns every matching listing exactly once:
\* the page sizes sum to total and no listing id is on two pages.
C3_PagesPartition ==
    (PagingComplete /\ NoTies) =>
        /\ SumLen(pages) = resp.total
        /\ \A i, j \in DOMAIN pages :
             i < j => \A a \in DOMAIN pages[i].data, b \in DOMAIN pages[j].data :
                         pages[i].data[a].id # pages[j].data[b].id

\* The reference price point claim C5 names for a listing: closest year, the
\* earlier year when two are equally close.
SelectedReference(l) ==
    IF ClosestPrices(l) = {} THEN NullPrice
    ELSE LET p == CHOOSE x \in ClosestPrices(l) :
                     \A y \in ClosestPrices(l) : x.year <= y.year
         IN [entry_price_eur |-> p.entry_price_eur, year |-> Some(p.year)]

\* The listings that take part in the result of request q when each has the
\* reference price point C5 names.
Participants(q) ==
    {l \in listings : WhereClause(l, SelectedReference(l), q)}

\* C4: total is the number of listings with a non-null selected reference
\* price and a non-null price that satisfy the filters, whatever limit and
\* offset, and every row of every page is such a listing.
C4_TotalIsParticipants ==
    Answered =>
        /\ resp.total = Cardinality(Participants(req))
        /\ RowIds \subseteq {l.id : l \in Participants(req)}

\* C5: the reference price point of a returned row is one whose year is
\* closest to the listing's year (0 when null), and the earlier one when two
\* are equally close.
C5_EarliestClosestYear ==
    Answered =>
        \A r \in Rows :
            /\ r.original_year = IntOrNull(SelectedReference(ListingOf(r)).year)
            /\ r.original_price
                 = JsonNumber(SelectedReference(ListingOf(r)).entry_price_eur)

\* The price is not null, zero or negative (NaN is none of the three).
PositivePrice(l) ==
    ~IsNull(l.price_eur) /\ (IsFinite(l.price_eur) => Get(l.price_eur) > 0)

\* C6: a listing whose price is null, zero or negative is on no page and not
\* in total.
C6_NonPositivePriceLeftOut ==
    Answered =>
        /\ \A r \in Rows : PositivePrice(ListingOf(r))
        /\ resp.total <= Cardinality({l \in listings : PositivePrice(l)})

\* C7: with a sortBy that (less a leading '-') is no key of the allow-list,
\* the request is answered, not failed, and the rows come by
\* price_delta_percent descending.  (Only requests no division by zero fails.)
C7_FallbackDescending ==
    (/\ req.sent /\ resp.sent
     /\ SortColumn(req) \notin DOMAIN validSortColumns
     /\ \A l \in listings : \A p \in LateralRows(l) : ~DividesByZero(l, p, req)) =>
        /\ resp.status = 200
        /\ \A i, j \in DOMAIN resp.data :
             (/\ i < j
              /\ ~IsNull(resp.data[i].price_delta_percent)
              /\ ~IsNull(resp.data[j].price_delta_percent)) =>
                 Get(resp.data[i].price_delta_percent)
                   >= Get(resp.data[j].price_delta_percent)

\* The listings C8 says a request with discount bounds returns: those that
\* pass the other filters and whose 2-decimal percent is within the bounds.
WithinDiscount(l, q) ==
    LET p == SelectedReference(l)
        c == PriceDeltaPercent(Get(p.entry_price_eur), Get(l.price_eur))
    IN /\ PlainFilters(l, p, q)
       /\ IsFinite(p.entry_price_eur) /\ IsFinite(l.price_eur)
       /\ Get(p.entry_price_eur) # 0
       /\ ~IsNull(q.minDiscount) =>
             ~NumLess(Normal(c, 2), JsNumber(Get(q.minDiscount)))
       /\ ~IsNull(q.maxDiscount) =>
             ~NumLess(JsNumber(Get(q.maxDiscount)), Normal(c, 2))

\* C8: with minDiscount and/or maxDiscount, a listing is returned exactly when
\* the price_delta_percent it is returned with is within the bounds, and total
\* counts the same listings.  (A first page that holds the whole result.)
C8_DiscountOnReturnedPercent ==
    (/\ Answered /\ NoTies
     /\ ~IsNull(req.minDiscount) \/ ~IsNull(req.maxDiscount)
     /\ req.offset = 0 /\ req.limit >= Cardinality(listings)) =>
        /\ RowIds = {l.id : l \in {x \in listings : WithinDiscount(x, req)}}
        /\ resp.total = Cardinality({x \in listings : WithinDiscount(x, req)})

----------------------------------------------------------------------------
(* Properties of reconciliation, checked under SpecSeed *)

LowestId(S) == CHOOSE x \in S : \A y \in S : x.id <= y.id

\* C9: reconciliation is a function of (make, model) and the catalog: among
\* several matching makers, and among several matching models of the maker,
\* the one with the lowest id is chosen.
C9_LowestIdChosen ==
    (lastMatch.done /\ lastMatch.lookups > 0 /\ ~lastMatch.error) =>
        LET mc == MakerCandidates(Get(lastMatch.make))
        IN IF mc = {} THEN lastMatch.modelId = Null
           ELSE LET dc == ModelCandidates(LowestId(mc).id, Get(lastMatch.model))
                IN /\ lastMatch.makerId = Some(LowestId(mc).id)
                   /\ lastMatch.modelId =
                        (IF dc = {} THEN Null ELSE Some(LowestId(dc).id))

\* name holds text, ignoring case.
ContainsIgnoringCase(name, text) ==
    \E i \in 1..(Len(name) - Len(text) + 1) :
        SubSeq(LowerText(name), i, i + Len(text) - 1) = LowerText(text)

MakerNamed(id) == CHOOSE m \in makers : m.id = id

\* C10: with a null or empty make or model no lookup is made and the result
\* is null; otherwise a maker is selected whose name equals or contains the
\* make, ignoring case, and the result is null only when there is no such
\* maker.  (Of the lookups that do not fail.)
C10_MakerLookup ==
    (lastMatch.done /\ (lastMatch.lookups > 0 => ~lastMatch.error)) =>
        IF ~(Truthy(lastMatch.make) /\ Truthy(lastMatch.model))
        THEN lastMatch.lookups = 0 /\ lastMatch.modelId = Null
        ELSE LET make == Get(lastMatch.make)
             IN /\ ~IsNull(lastMatch.makerId) =>
                     ContainsIgnoringCase(MakerNamed(Get(lastMatch.makerId)).name, make)
                /\ IsNull(lastMatch.makerId) =>
                     /\ lastMatch.modelId = Null
                     /\ \A m \in makers : ~ContainsIgnoringCase(m.name, make)

----------------------------------------------------------------------------
(* Two runs of the seed script side by side, one client.query at a time *)

\* The processes: each has its own makerCache and modelCache, its place in
\* the body of seedPrices' loop (pc), the row in hand with the ids it got for
\* it, and the ids getMakerId and getModelId have returned to it so far.
Procs == {1, 2}

FreshProc ==
    [makerCache |-> <<>>, modelCache |-> <<>>, pc |-> "row", rows |-> 0,
     record |-> Null, makerId |-> 0, modelId |-> 0,
     makerIds |-> <<>>, modelIds |-> <<>>]

InitConcurrent ==
    /\ makers = {} /\ models = {} /\ prices = {} /\ listings = {}
    /\ makerSeq = 0 /\ modelSeq = 0 /\ listingSeq = 0
    /\ makerCache = <<>> /\ modelCache = <<>>
    /\ phase = "prices"
    /\ lastMatch = NoMatch
    /\ req = NoRequest /\ resp = NoRequest /\ pages = <<>>
    /\ sales = {} /\ sold_cars = {} /\ soldSeq = 0
    /\ run = NoRun /\ titleIn = Null /\ extracted = Null
    /\ procs = [p \in Procs |-> FreshProc]
    /\ AppIdle

\* What no step of a process touches.
procFrame ==
    <<appVars, listings, listingSeq, makerCache, modelCache, phase, lastMatch,
      req, resp, pages, soldVars, run, titleIn, extracted>>

\* Process p reads the next row of its price file; a row without maker,
\* model or genmodel id is passed over; for any other, getMakerId answers from
\* the cache of p or with the upsert of makers.
ProcGetMakerId(p, record) ==
    LET me == procs[p]
    IN /\ me.pc = "row" /\ me.rows < MaxProcRows
       /\ IF ~IsCatalogRow(record)
          THEN /\ procs' = [procs EXCEPT ![p].rows = @ + 1]
               /\ UNCHANGED <<makers, makerSeq>>
          ELSE LET name == MakerNameOf(record)
                   key  == MakerCacheKey(name)
                   hit  == key \in DOMAIN me.makerCache
                   id   == IF hit THEN me.makerCache[key]
                           ELSE UpsertMakerId(Trim(name))
               IN /\ makers' = IF hit THEN makers ELSE UpsertMakerRows(Trim(name))
                  /\ makerSeq' = IF hit THEN makerSeq ELSE makerSeq + 1
                  /\ procs' = [procs EXCEPT ![p] =
                        [me EXCEPT !.pc = "model", !.record = Some(record),
                                   !.makerId = id, !.rows = @ + 1,
                                   !.makerCache = IF hit THEN @ ELSE (key :> id) @@ @,
                                   !.makerIds = (Trim(name) :> id) @@ @]]
       /\ UNCHANGED <<models, modelSeq, prices, procFrame>>

\* getModelId of process p for the row in hand.
ProcGetModelId(p) ==
    LET me     == procs[p]
        record == Get(me.record)
        gid    == GenmodelIdOf(record)
        key    == ModelCacheKey(me.makerId, gid)
        hit    == key \in DOMAIN me.modelCache
        id     == IF hit THEN me.modelCache[key]
                  ELSE UpsertModelId(models, me.makerId, Trim(gid))
    IN /\ me.pc = "model"
       /\ models' = IF hit THEN models
                    ELSE UpsertModelRows(models, me.makerId,
                                         Trim(ModelNameOf(record)), Trim(gid))
       /\ modelSeq' = IF hit THEN modelSeq ELSE modelSeq + 1
       /\ procs' = [procs EXCEPT ![p] =
             [me EXCEPT !.pc = "price", !.modelId = id,
                        !.modelCache = IF hit THEN @ ELSE (key :> id) @@ @,
                        !.modelIds = (key :> id) @@ @]]
       /\ UNCHANGED <<makers, makerSeq, prices, procFrame>>

\* The upsert of prices of process p for the row in hand, passed over when
\* the row has no year.  A year that is no integer fails the INSERT and
\* ends the process.
ProcUpsertPrice(p) ==
    LET me     == procs[p]
        record == Get(me.record)
        year   == parseIntOrNull(Col(record, "Year"))
    IN /\ me.pc = "price"
       /\ prices' = IF IsNull(year) \/ year = <<0>> \/ ~IsInteger(year) THEN prices
                    ELSE UpsertPrice(prices, me.modelId, year[1],
                                     NumberOrNull(Col(record, "Entry_price")),
                                     NumberOrNull(Col(record, "Entry_price_eur")))
       /\ procs' = [procs EXCEPT
                      ![p].pc = IF seedPricesThrows(record) THEN "failed" ELSE "row",
                      ![p].record = Null]
       /\ UNCHANGED <<makers, makerSeq, models, modelSeq, procFrame>>

NextConcurrent ==
    \/ \E p \in Procs : \E record \in PriceRows : ProcGetMakerId(p, record)
    \/ \E p \in Procs : ProcGetModelId(p)
    \/ \E p \in Procs : ProcUpsertPrice(p)

SpecConcurrent == InitConcurrent /\ [][NextConcurrent]_vars

----------------------------------------------------------------------------
(* extractMakeModel applied to titles *)

TitleWords ==
    { <<"A","b">>, <<"M","e","r","c","e","d","e","s">>, <<"B","e","n","z">>,
      <<"a","4">>, <<"2",".","0">>, <<"2">>, <<"T">>, <<"t","d","i">>,
      <<"2",".","0","T">> }

\* The words joined by sep, with pad before and after.
RECURSIVE JoinWith(_, _)
JoinWith(words, sep) ==
    IF words = <<>> THEN <<>>
    ELSE IF Len(words) = 1 THEN words[1]
    ELSE words[1] \o sep \o JoinWith(Tail(words), sep)

\* Titles of the listings file: up to MaxTitleWords words, one or two spaces
\* between them, with or without spaces around; and the missing title.
Titles ==
    {Null} \cup
    { Some(pad \o JoinWith(ws, sep) \o pad) :
        ws \in UNION {[1..n -> TitleWords] : n \in 0..MaxTitleWords},
        sep \in {<<" ">>, <<" "," ">>},
        pad \in {<<>>, <<" ">>} }

InitExtract ==
    /\ makers = {} /\ models = {} /\ prices = {} /\ listings = {}
    /\ makerSeq = 0 /\ modelSeq = 0 /\ listingSeq = 0
    /\ makerCache = <<>> /\ modelCache = <<>>
    /\ phase = "listings"
    /\ lastMatch = NoMatch
    /\ req = NoRequest /\ resp = NoRequest /\ pages = <<>>
    /\ sales = {} /\ sold_cars = {} /\ soldSeq = 0
    /\ run = NoRun /\ procs = NoProcs
    /\ titleIn \in Titles /\ extracted = Null
    /\ AppIdle

\* seedListings calls extractMakeModel on the title of the row in hand.
Extract ==
    /\ extracted = Null
    /\ extracted' = Some(extractMakeModel(titleIn))
    /\ UNCHANGED <<appVars, dbVars, makerCache, modelCache, phase, lastMatch, req, resp,
                   pages, soldVars, run, procs, titleIn>>

NextExtract == Extract

SpecExtract == InitExtract /\ [][NextExtract]_vars

----------------------------------------------------------------------------
(* Properties of extractMakeModel, checked under SpecExtract *)

\* The whitespace-separated words of a text.
RECURSIVE Words(_)
Words(s) ==
    IF s = <<>> THEN <<>>
    ELSE IF IsSpace(Head(s)) THEN Words(Tail(s))
    ELSE LET e == NextSpace(s, 1)
         IN <<SubSeq(s, 1, e - 1)>> \o Words(SubSeq(s, e, Len(s)))

TitleOf == IF IsNull(titleIn) THEN <<>> ELSE Words(Get(titleIn))

Benz == <<"B","e","n","z">>
Mercedes == <<"M","e","r","c","e","d","e","s">>

\* C13 (as amended): for a title of at least two words, make is the first
\* word when the second word is not "Benz", and the first word, a hyphen and
\* "Benz" when it is, whatever the first word.
C13_MakeIsFirstWord ==
    (~IsNull(extracted) /\ Len(TitleOf) >= 2) =>
        Get(extracted).make =
            (IF TitleOf[2] = Benz THEN Some(TitleOf[1] \o <<"-">> \o Benz)
             ELSE Some(TitleOf[1]))

\* A title whose second word is "Benz" and whose first is not "Mercedes" has
\* been extracted.
C13_Witness ==
    /\ ~IsNull(extracted) /\ Len(TitleOf) >= 2
    /\ TitleOf[2] = Benz /\ TitleOf[1] # Mercedes
    /\ Get(extracted).make = Some(TitleOf[1] \o <<"-">> \o Benz)

\* C13 as stated: for a title of at least two words that does not start with
\* "Mercedes Benz", make is the first word.
C13_Original ==
    (/\ ~IsNull(extracted) /\ Len(TitleOf) >= 2
     /\ ~(TitleOf[1] = Mercedes /\ TitleOf[2] = Benz)) =>
        Get(extracted).make = Some(TitleOf[1])

\* A decimal number: digits, a dot, digits.
IsDecimalWord(w) ==
    \E i \in 2..(Len(w) - 1) :
        /\ w[i] = "."
        /\ \A j \in 1..(i - 1) : IsDigit(w[j])
        /\ \A j \in (i + 1)..Len(w) : IsDigit(w[j])

IsUpperWord(w) == w # <<>> /\ \A i \in DOMAIN w : InSeq(w[i], Uppers)

\* The words after the make: after the first word, after the second when the
\* make took "Benz" in.
WordsAfterMake ==
    IF TitleOf[2] = Benz THEN SubSeq(TitleOf, 3, Len(TitleOf))
    ELSE SubSeq(TitleOf, 2, Len(TitleOf))

\* The places of WordsAfterMake that hold a decimal number right before a word
\* of uppercase letters.
EngineCodeAt ==
    {i \in 1..(Len(WordsAfterMake) - 1) :
        IsDecimalWord(WordsAfterMake[i]) /\ IsUpperWord(WordsAfterMake[i + 1])}

\* C14: model is the words after the make joined by single spaces, less the
\* suffix that starts at a decimal number followed by a word of uppercase
\* letters; with no such pair nothing is removed.
C14_ModelLessEngineCode ==
    (~IsNull(extracted) /\ Len(TitleOf) >= 2) =>
        Get(extracted).model =
            (IF EngineCodeAt = {} THEN Some(JoinSpace(WordsAfterMake))
             ELSE LET i == CHOOSE i \in EngineCodeAt : \A j \in EngineCodeAt : i <= j
                  IN Some(JoinSpace(SubSeq(WordsAfterMake, 1, i - 1))))

----------------------------------------------------------------------------
(* Further properties of reconciliation, checked under SpecSeed *)

\* s.split(/\s+/)[0] of the model text: its first whitespace-delimited token.
FirstWord(model) == SplitWs(Trim(model))[1]

\* C11: given a matched maker, the model returned belongs to that maker and
\* its name contains, ignoring case, the first whitespace-delimited token of
\* the extracted model; null is returned when no model of the maker does.
\* (Of the lookups that do not fail.)
C11_ModelLookup ==
    (lastMatch.done /\ ~lastMatch.error /\ ~IsNull(lastMatch.makerId)) =>
        LET token  == FirstWord(Get(lastMatch.model))
            has(m) == /\ m.maker_id = Get(lastMatch.makerId)
                      /\ ContainsIgnoringCase(m.name, token)
        IN IF IsNull(lastMatch.modelId)
           THEN \A m \in models : ~has(m)
           ELSE \E m \in models : m.id = Get(lastMatch.modelId) /\ has(m)

\* C16: no two makers have names that are equal ignoring case.
C16_MakersUniqueIgnoringCase ==
    \A m1 \in makers : \A m2 \in makers :
        UpperText(m1.name) = UpperText(m2.name) => m1 = m2

\* C17: ingesting a row whose url is already stored keeps the listing's id and
\* leaves it with the row's title, price_eur, currency, mileage_km, year,
\* model_id, extracted_make and extracted_model (location, description, images
\* and specs are written as currency is).
C17_ReingestReplacesFields ==
    [][\A record \in ListingRows :
         (SeedListingsRow(record) /\ ListingByUrl(TextOrNull(record.url)) # {}) =>
            \A old \in ListingByUrl(TextOrNull(record.url)) :
                \E l \in listings' :
                    /\ l.id = old.id /\ l.url = old.url
                    /\ l.title = TextOrNull(record.title)
                    /\ l.price_eur = FloatOrNull(record.price_eur)
                    /\ l.currency = TextOrNull(record.currency)
                    /\ l.mileage_km = FloatOrNull(record.mileage_km)
                    /\ l.year = parseIntOrNull(record.year)
                    /\ l.model_id = lastMatch'.modelId
                    /\ l.extracted_make = lastMatch'.make
                    /\ l.extracted_model = lastMatch'.model]_vars

\* C20: every stored listing has the extracted_make and extracted_model that
\* extractMakeModel derives from its current title.
C20_ExtractedFromTitle ==
    \A l \in listings :
        /\ l.extracted_make = extractMakeModel(l.title).make
        /\ l.extracted_model = extractMakeModel(l.title).model

----------------------------------------------------------------------------
(* Properties of whole seeding runs, checked under SpecRerun *)

\* C12: when the maker or the model lookup of a listings row fails, the row
\* is stored all the same, inserted or updated under its url, with model_id
\* null, and the run goes on to the next row of the file.
C12_LookupErrorKeepsListing ==
    [][(RunListings /\ lastMatch'.error) =>
         LET record == CurrentFile[run.pos]
             url    == TextOrNull(record.url)
         IN /\ \E l \in listings' :
                 /\ l.model_id = Null
                 /\ l.url = url /\ l.title = TextOrNull(record.title)
                 /\ IF ListingByUrl(url) # {}
                    THEN l.id \in {old.id : old \in ListingByUrl(url)}
                    ELSE l.id \notin {old.id : old \in listings}
            /\ Cardinality(listings') =
                 Cardinality(listings) + (IF ListingByUrl(url) # {} THEN 0 ELSE 1)
            /\ phase' = "listings" /\ run'.pos = run.pos + 1]_vars

\* A lookup failed for a row that was matched to a model by an earlier run,
\* the listing is stored without a model, and the file has a row left.
C12_Witness ==
    /\ phase = "listings" /\ lastMatch.done /\ lastMatch.error /\ HasRow
    /\ \E l \in listings : \E old \in run.start.listings :
          /\ l.id = old.id /\ ~IsNull(old.model_id) /\ IsNull(l.model_id)
          /\ l.extracted_make = lastMatch.make

\* The run has read the sales and price files its predecessor read.
SameCatalogFiles ==
    /\ ~IsNull(run.prev)
    /\ Get(run.prev).sales = run.files.sales
    /\ Get(run.prev).prices = run.files.prices

\* The price point holds the values of a row of the price file for its year
\* and its model.
FromSourceRow(p) ==
    \E i \in DOMAIN run.files.prices :
        LET r == run.files.prices[i]
        IN /\ parseIntOrNull(Col(r, "Year")) = Some(p.year)
           /\ \E m \in models : m.id = p.model_id /\ m.genmodel_id = GenmodelIdOf(r)
           /\ p.entry_price = NumberOrNull(Col(r, "Entry_price"))
           /\ p.entry_price_eur = NumberOrNull(Col(r, "Entry_price_eur"))

\* C15: a run that reads the sales and price files of the run before it
\* leaves makers, models, prices and sales as it found them: no row added,
\* no id changed, one row for each name, each (maker_id, genmodel_id) and
\* each (model_id, year), and each price point with the values of a source row.
C15_CatalogRerunChangesNothing ==
    (phase = "done" /\ SameCatalogFiles) =>
        /\ makers = run.start.makers /\ models = run.start.models
        /\ prices = run.start.prices /\ sales = run.start.sales
        /\ \A a \in makers : \A b \in makers : a.name = b.name => a = b
        /\ \A a \in models : \A b \in models :
              (a.maker_id = b.maker_id /\ a.genmodel_id = b.genmodel_id) => a = b
        /\ \A a \in prices : \A b \in prices :
              (a.model_id = b.model_id /\ a.year = b.year) => a = b
        /\ \A p \in prices : FromSourceRow(p)

\* A second run has ended on a price file that spells one maker in two ways
\* and a sales file, with makers, models, price points and sales stored.
C15_Witness ==
    /\ phase = "done" /\ SameCatalogFiles
    /\ makers # {} /\ models # {} /\ prices # {} /\ sales # {}
    /\ \E i \in DOMAIN run.files.prices : \E j \in DOMAIN run.files.prices :
          /\ MakerNameOf(run.files.prices[i]) # MakerNameOf(run.files.prices[j])
          /\ UpperText(MakerNameOf(run.files.prices[i]))
                = UpperText(MakerNameOf(run.files.prices[j]))

\* C18: a run of seedAll on the files of the run before it leaves listings
\* and sold_cars with the rows it found.
C18_SeedingIdempotent ==
    (phase = "done" /\ run.prev = Some(run.files)) =>
        /\ listings = run.start.listings
        /\ sold_cars = run.start.sold_cars

----------------------------------------------------------------------------
(* Properties of runs side by side, checked under SpecConcurrent *)

\* C19: under every interleaving of two runs there is one makers row for a
\* name and one models row for a (maker_id, genmodel_id), and the two runs
\* have got the same id for the same maker name and for the same
\* (maker_id, genmodel_id).
C19_ConcurrentRunsAgree ==
    /\ \A a \in makers : \A b \in makers : a.name = b.name => a = b
    /\ \A a \in models : \A b \in models :
          (a.maker_id = b.maker_id /\ a.genmodel_id = b.genmodel_id) => a = b
    /\ \A p \in Procs : \A q \in Procs :
          /\ \A k \in DOMAIN procs[p].makerIds \cap DOMAIN procs[q].makerIds :
                procs[p].makerIds[k] = procs[q].makerIds[k]
          /\ \A k \in DOMAIN procs[p].modelIds \cap DOMAIN procs[q].modelIds :
                procs[p].modelIds[k] = procs[q].modelIds[k]

----------------------------------------------------------------------------
(* Properties of the stored references, checked under SpecSeed *)

\* C21: in every state the seeding runs reach, every models row has a
\* maker_id that is the id of a makers row, and every listing with a non-null
\* model_id has the id of a models row there.
C21_ReferencesExist ==
    /\ \A m \in models : \E k \in makers : k.id = m.maker_id
    /\ \A l \in listings :
          ~IsNull(l.model_id) => \E m \in models : m.id = Get(l.model_id)

\* A second process has found the maker through the upsert's conflict,
\* has written a model under it, and a listing has been reconciled.
C21_Witness ==
    /\ makerSeq > Cardinality(makers)
    /\ Cardinality(models) >= 2
    /\ \E l \in listings : ~IsNull(l.model_id)

\* The listing the row just read was stored as: the one of its url, or the
\* one inserted under the next id.
StoredAs(record) ==
    IF ListingByUrl(TextOrNull(record.url)) # {}
    THEN {l \in listings' : l.url = TextOrNull(record.url)}
    ELSE {l \in listings' : l.id = listingSeq + 1}

\* The text, as a whole, is a numeral.
IsNumeral(text) == Trim(text) # <<>> /\ ParseNumber(text) # NaN

\* C22: a listings row with an empty title, a price that is no number or no
\* year is stored all the same, with null in each such field.
C22_MalformedStoredAsNull ==
    [][\A record \in ListingRows :
         SeedListingsRow(record) =>
            /\ StoredAs(record) # {}
            /\ \A l \in StoredAs(record) :
                  /\ record.title = <<>> => IsNull(l.title)
                  /\ ~IsNumeral(record.price_eur) => IsNull(l.price_eur)
                  /\ record.year = <<>> => IsNull(l.year)]_vars

----------------------------------------------------------------------------
(* Express routing of GET /api/listings/... and the two handlers behind it *)

\* A segment of a route's path: a literal, or a parameter such as :id.
Lit(text) == [param |-> FALSE, text |-> text]
Param(name) == [param |-> TRUE, text |-> name]

ListingsSeg == <<"l","i","s","t","i","n","g","s">>
SearchSeg == <<"s","e","a","r","c","h">>
ApiSeg == <<"a","p","i">>

\* The app.get routes of three segments under /api/listings, in the order of
\* their registration; the handler is named by what it serves.
Routes ==
    << [path |-> <<Lit(ApiSeg), Lit(ListingsSeg), Param("id")>>, handler |-> "listing"],
       [path |-> <<Lit(ApiSeg), Lit(ListingsSeg), Lit(SearchSeg)>>, handler |-> "search"] >>

\* Express matches a path segment by segment, literals without regard to
\* case, a parameter against any segment that is not empty.
RouteMatches(route, path) ==
    /\ Len(route.path) = Len(path)
    /\ \A i \in DOMAIN path :
          IF route.path[i].param THEN path[i] # <<>>
          ELSE LowerText(route.path[i].text) = LowerText(path[i])

\* The first route registered that matches is the one that handles the
\* request (its handler answers without calling next()); 0 when none does.
Dispatch(path) ==
    IF \E i \in DOMAIN Routes : RouteMatches(Routes[i], path)
    THEN CHOOSE i \in DOMAIN Routes :
            /\ RouteMatches(Routes[i], path)
            /\ \A j \in 1..(i - 1) : ~RouteMatches(Routes[j], path)
    ELSE 0

Int4Max == 2147483647
Int4Min == 0 - Int4Max - 1

\* The loop over the digits of a numeral, from the text s on: a digit is
\* added to the number read so far unless that number is above
\* -(PG_INT32_MIN / radix), which is "out of range" at once, whatever
\* follows; an underscore must have a digit after it and, in a decimal
\* numeral, a digit before it; any other character ends the loop.  The number
\* read so far is held negated in acc, so that 2147483648 is held as well,
\* and 1 stands for a number above that.  moved: the loop has read a
\* character.
RECURSIVE Int4Scan(_, _, _, _)
Int4Scan(s, radix, acc, moved) ==
    IF s # <<>> /\ RadixDigit(Head(s), radix)
    THEN IF acc = 1 \/ acc < (Int4Min + radix - 1) \div radix
         THEN [kind |-> "range", val |-> 0]
         ELSE Int4Scan(Tail(s), radix,
                       IF acc * radix < Int4Min + RadixValue(Head(s)) THEN 1
                       ELSE acc * radix - RadixValue(Head(s)),
                       TRUE)
    ELSE IF s # <<>> /\ Head(s) = "_"
    THEN IF (radix = 10 /\ ~moved) \/ Len(s) < 2 \/ ~RadixDigit(s[2], radix)
         THEN [kind |-> "syntax", val |-> 0]
         ELSE Int4Scan(Tail(s), radix, acc, TRUE)
    ELSE [kind |-> "end", val |-> acc, moved |-> moved, rest |-> s]

\* What follows the loop: at least one digit was read, only white space is
\* left, and the number fits the sign (neg: a minus sign was read).
Int4Of(scan, neg) ==
    IF scan.kind # "end" THEN scan
    ELSE IF ~scan.moved \/ TrimLeft(scan.rest) # <<>>
    THEN [kind |-> "syntax", val |-> 0]
    ELSE IF scan.val = 1 \/ (~neg /\ scan.val = Int4Min)
    THEN [kind |-> "range", val |-> 0]
    ELSE [kind |-> "ok", val |-> IF neg THEN scan.val ELSE 0 - scan.val]

\* The radix of the numeral u and its digits: those after 0x, 0o or 0b, or
\* all of a decimal numeral.
Int4Radix(u) ==
    IF Len(u) >= 2 /\ u[1] = "0" /\ RadixOf(u[2]) # 0 THEN RadixOf(u[2]) ELSE 10
Int4Body(u, radix) == IF radix = 10 THEN u ELSE SubSeq(u, 3, Len(u))

Int4Numeral(u, neg) ==
    Int4Of(Int4Scan(Int4Body(u, Int4Radix(u)), Int4Radix(u), 0, FALSE), neg)

Int4Signed(t) ==
    Int4Numeral(IF IsSigned(t) THEN Tail(t) ELSE t, IsSigned(t) /\ Head(t) = "-")

\* The text parameter $1 of WHERE l.id = $1 is read as an integer by the
\* input function of PostgreSQL (pg_strtoint32_safe): white space in front
\* is skipped, then come a sign and a decimal, 0x, 0o or 0b numeral, then
\* white space; a value outside of 32 bits is out of range.
Int4In(text) == Int4Signed(TrimLeft(text))

IsIntegerText(text) == Int4In(text).kind = "ok"

\* An error's message: the words of the message and the value it quotes
\* (<<>> when it quotes none).
Message(words, value) == [words |-> words, value |-> value]

HttpResponse(status, handler, results, listing, error) ==
    [sent |-> TRUE, status |-> status, handler |-> handler,
     results |-> results, listing |-> listing, error |-> error]

\* COALESCE(a, b)
Coalesce(a, b) == IF IsNull(a) THEN b ELSE a

NameOf(rows) == IF rows = {} THEN Null ELSE Some((CHOOSE r \in rows : TRUE).name)

\* The answers to GET /api/listings/:id, key being what PostgreSQL reads the
\* parameter as.
ListingResponses(id, key) ==
    IF key.kind = "syntax"
    THEN {HttpResponse(500, "listing", Null, Null,
             Some(Message("invalid input syntax for type integer", id)))}
    ELSE IF key.kind = "range"
    THEN {HttpResponse(500, "listing", Null, Null,
             Some(Message("value is out of range for type integer", id)))}
    ELSE IF \A l \in listings : l.id # key.val
    THEN {HttpResponse(404, "listing", Null, Null,
             Some(Message("Listing not found", <<>>)))}
    ELSE {HttpResponse(200, "listing", Null,
             Some([id |-> l.id, url |-> l.url, title |-> l.title,
                   price_eur |-> JsonNumber(l.price_eur),
                   currency |-> l.currency,
                   mileage_km |-> JsonNumber(l.mileage_km),
                   year |-> IntOrNull(l.year),
                   description |-> l.description,
                   make |-> OrElse(l.extracted_make, NameOf(MakerOf(l))),
                   model |-> OrElse(l.extracted_model, NameOf(ModelOf(l)))]),
             Null) : l \in {r \in listings : r.id = key.val}}

\* GET /api/listings/:id
GetListing(id) == ListingResponses(id, Int4In(id))

\* The WHERE clause of the search: each filter that is supplied must hold.
SearchMatches(l, r) ==
    /\ Supplied(r.maker) =>
          \/ ILikeCol(l.extracted_make, Contains(Get(r.maker)))
          \/ ILikeCol(NameOf(MakerOf(l)), Contains(Get(r.maker)))
    /\ Supplied(r.model) =>
          \/ ILikeCol(l.extracted_model, Contains(Get(r.model)))
          \/ ILikeCol(NameOf(ModelOf(l)), Contains(Get(r.model)))
    /\ Supplied(r.q) =>
          \/ ILikeCol(l.title, Contains(Get(r.q)))
          \/ ILikeCol(l.description, Contains(Get(r.q)))

\* ORDER BY l.price_eur DESC: nulls come first, equal prices in any order.
MayPrecedeDesc(a, b) ==
    IF IsNull(a.price_eur) THEN TRUE
    ELSE IF IsNull(b.price_eur) THEN FALSE
    ELSE ~NumLess(a.price_eur, b.price_eur)

RECURSIVE SearchOrderings(_)
SearchOrderings(rows) ==
    IF rows = {} THEN {<<>>}
    ELSE LET x == CHOOSE r \in rows : TRUE
         IN UNION
              {{InsertAt(t, i, x) :
                   i \in {j \in 1..(Len(t) + 1) :
                            /\ j = 1 \/ MayPrecedeDesc(t[j - 1], x)
                            /\ j > Len(t) \/ MayPrecedeDesc(x, t[j])}}
                 : t \in SearchOrderings(rows \ {x})}

\* `limit = 20` of the destructuring, then Number(limit).
DefaultSearchLimit == 20
SearchLimit(r) ==
    IF IsNull(r.limit) THEN <<DefaultSearchLimit>> ELSE JsNumber(Get(r.limit))

SearchRow(l) ==
    [id |-> l.id, title |-> l.title,
     price_eur |-> JsonNumber(l.price_eur),
     year |-> IntOrNull(l.year),
     mileage_km |-> JsonNumber(l.mileage_km),
     make |-> Coalesce(NameOf(MakerOf(l)), l.extracted_make),
     model |-> Coalesce(NameOf(ModelOf(l)), l.extracted_model)]

\* GET /api/listings/search.  The parameter of LIMIT is read as a bigint:
\* the text of a number that is no integer is refused, and so is a negative
\* limit; the error goes to the error handler of the application.
SearchListings(r) ==
    IF ~IsInteger(SearchLimit(r))
    THEN {HttpResponse(500, "search", Null, Null,
             Some(Message("invalid input syntax for type bigint",
                          NumberText(SearchLimit(r)))))}
    ELSE IF SearchLimit(r)[1] < 0
    THEN {HttpResponse(500, "search", Null, Null,
             Some(Message("LIMIT must not be negative", <<>>)))}
    ELSE {HttpResponse(200, "search",
                       Some([i \in DOMAIN t |-> SearchRow(t[i])]), Null, Null)
            : t \in {LimitOffset(o, SearchLimit(r)[1], 0)
                       : o \in SearchOrderings({l \in listings : SearchMatches(l, r)})}}

\* What the application answers to GET r.path.
HttpResponses(r) ==
    IF Dispatch(r.path) = 0
    THEN {HttpResponse(404, "none", Null, Null, Null)}
    ELSE IF Routes[Dispatch(r.path)].handler = "listing"
    THEN GetListing(r.path[3])
    ELSE SearchListings(r)

HttpRequests ==
    [sent : {TRUE},
     path : {<<ApiSeg, ListingsSeg, seg>> :
                seg \in {SearchSeg, <<"1">>, <<"6">>, <<"9">>, <<" ","1">>, <<"0","x","6">>,
                         <<"9","9","9","9","9","9","9","9","9","9","9">>,
                         <<"9","9","9","9","9","9","9","9","9","9","x">>}}
             \cup {<<ApiSeg, SearchSeg, <<"1">>>>},
     maker : {Null, Some(<<"a">>)},
     model : {Null, Some(<<"x">>)},
     q : {Null, Some(<<"2">>)},
     limit : {Null, Some(<<"1">>), Some(<<"1",".","5">>)}]

InitRoutes ==
    /\ makers = {[id |-> 1, name |-> <<"A","b">>]}
    /\ models = {[id |-> 1, maker_id |-> 1, name |-> <<"a","4">>,
                  genmodel_id |-> <<"g","1">>]}
    /\ prices = {}
    /\ listings \in {L \in SUBSET SampleListings : Cardinality(L) <= MaxListings}
    /\ makerSeq = 1 /\ modelSeq = 1 /\ listingSeq = Cardinality(SampleListings)
    /\ makerCache = <<>> /\ modelCache = <<>>
    /\ phase = "listings"
    /\ lastMatch = NoMatch
    /\ req = NoRequest /\ resp = NoRequest /\ pages = <<>>
    /\ sales = {} /\ sold_cars = {} /\ soldSeq = 0
    /\ run = NoRun /\ procs = NoProcs /\ titleIn = Null /\ extracted = Null
    /\ AppIdle

\* A client sends GET r.path and the application answers.
HttpGet(r) ==
    /\ ~req.sent
    /\ req' = r
    /\ resp' \in HttpResponses(r)
    /\ UNCHANGED <<appVars, dbVars, makerCache, modelCache, phase, lastMatch, pages>>
    /\ UNCHANGED <<soldVars, driverVars>>

NextRoutes ==
    \/ \E r \in HttpRequests : HttpGet(r)
    \/ Done

SpecRoutes == InitRoutes /\ [][NextRoutes]_vars

----------------------------------------------------------------------------
(* Properties of the routing, checked under SpecRoutes *)

\* C23: a GET of /api/listings/search is answered by the search handler,
\* with at most limit listings under results, each matching maker, model and q.
C23_SearchIsDispatched ==
    (req.sent /\ req.path = <<ApiSeg, ListingsSeg, SearchSeg>>) =>
        /\ resp.handler = "search"
        /\ resp.status = 200
        /\ ~IsNull(resp.results)
        /\ Len(Get(resp.results)) <= SearchLimit(req)[1]
        /\ \A i \in DOMAIN Get(resp.results) :
              \E l \in listings : l.id = Get(resp.results)[i].id /\ SearchMatches(l, req)

----------------------------------------------------------------------------
(* waitForDatabase *)

\* The state all specifications above start the seed script and the API from:
\* an empty database, no request, no seeding run.
Unseeded ==
    /\ makers = {} /\ models = {} /\ prices = {} /\ listings = {}
    /\ makerSeq = 0 /\ modelSeq = 0 /\ listingSeq = 0
    /\ makerCache = <<>> /\ modelCache = <<>>
    /\ phase = "prices"
    /\ lastMatch = NoMatch
    /\ req = NoRequest /\ resp = NoRequest /\ pages = <<>>
    /\ sales = {} /\ sold_cars = {} /\ soldSeq = 0
    /\ run = NoRun /\ procs = NoProcs /\ titleIn = Null /\ extracted = Null

\* What no step of waitForDatabase touches.
waitFrame ==
    <<dbVars, makerCache, modelCache, phase, lastMatch, req, resp, pages,
      soldVars, driverVars,
      localStorage, listingIds, lastCall, market_insights, now, insightCalls, page>>

\* The default values of the parameters.
DefaultMaxRetries == 30
DefaultDelay == 1000

\* The arguments of the model's calls: none (the defaults, as start calls
\* it), or a number of tries and a delay.
RetryArgs == {Null} \cup {Some(n) : n \in 1..MaxRetriesPassed}
DelayArgs == {Null, Some(0), Some(50)}

\* waitForDatabase(maxRetries = 30, delay = 1000) is called: i = 0.  attempts
\* counts the queries sent and slept the time waited; errors holds the
\* rejections of pool.query, each named by the attempt it ended.
InitWait ==
    /\ Unseeded
    /\ \E mr \in RetryArgs, d \in DelayArgs :
          wait = [pc |-> "for",
                  maxRetries |-> IF IsNull(mr) THEN DefaultMaxRetries ELSE Get(mr),
                  delay |-> IF IsNull(d) THEN DefaultDelay ELSE Get(d),
                  i |-> 0, attempts |-> 0, slept |-> 0, errors |-> <<>>,
                  result |-> "pending", thrown |-> Null]
    /\ localStorage = Null /\ listingIds = Null /\ lastCall = NoCall
    /\ market_insights = {} /\ now = 0 /\ insightCalls = <<>>
    /\ page = NoPage

\* for (...; i < maxRetries; ...): the body is entered, or the loop is left
\* and the function ends without a return statement.
ForTest ==
    /\ wait.pc = "for"
    /\ wait' = IF wait.i < wait.maxRetries
               THEN [wait EXCEPT !.pc = "query", !.attempts = @ + 1]
               ELSE [wait EXCEPT !.pc = "done", !.result = "undefined"]
    /\ UNCHANGED waitFrame

\* await pool.query('SELECT 1') resolves: return true.
SelectSucceeds ==
    /\ wait.pc = "query"
    /\ wait' = [wait EXCEPT !.pc = "done", !.result = "true"]
    /\ UNCHANGED waitFrame

\* The catch block with the test of the last pass one pass late.
SelectFailsLate ==
    /\ wait.pc = "query"
    /\ LET err == wait.attempts
       IN wait' = IF wait.i = wait.maxRetries
                  THEN [wait EXCEPT !.pc = "done", !.result = "throw",
                                    !.errors = Append(@, err), !.thrown = Some(err)]
                  ELSE [wait EXCEPT !.pc = "sleep", !.errors = Append(@, err)]
    /\ UNCHANGED waitFrame

\* await pool.query('SELECT 1') rejects with err: thrown again on the last
\* pass of the loop, else the timer is set.
SelectFails ==
    /\ wait.pc = "query"
    /\ LET err == wait.attempts
       IN wait' = IF wait.i = wait.maxRetries - 1
                  THEN [wait EXCEPT !.pc = "done", !.result = "throw",
                                    !.errors = Append(@, err), !.thrown = Some(err)]
                  ELSE [wait EXCEPT !.pc = "sleep", !.errors = Append(@, err)]
    /\ UNCHANGED waitFrame

\* The timer of setTimeout(resolve, delay) fires; i++.
TimerFires ==
    /\ wait.pc = "sleep"
    /\ wait' = [wait EXCEPT !.pc = "for", !.i = @ + 1, !.slept = @ + wait.delay]
    /\ UNCHANGED waitFrame

NextWait == ForTest \/ SelectSucceeds \/ SelectFails \/ TimerFires

SpecWait == InitWait /\ [][NextWait]_vars

\* A database that answers or refuses each query in time, a timer that fires.
FairWait == SpecWait /\ WF_vars(NextWait)

\* waitForDatabase sends at most maxRetries queries and has waited delay ms
\* before each but the first; when it has ended it has returned true, right
\* after the first query that succeeded, or it has thrown the error of the
\* last of maxRetries failed queries.
WaitOutcome ==
    /\ wait.attempts <= wait.maxRetries
    /\ wait.pc = "query" => wait.slept = wait.delay * (wait.attempts - 1)
    /\ wait.pc = "done" =>
          \/ wait.result = "true" /\ Len(wait.errors) = wait.attempts - 1
          \/ /\ wait.result = "throw"
             /\ Len(wait.errors) = wait.maxRetries
             /\ wait.attempts = wait.maxRetries
             /\ wait.thrown = Some(wait.errors[Len(wait.errors)])

\* C24: waitForDatabase attempts the connection at most maxRetries times (30
\* by default), waiting delay ms between attempts; it returns true at the
\* first successful attempt and throws the last error once maxRetries
\* attempts have failed, and every call ends in one of the two ways.
C24_ReturnsTrueOrThrows == []WaitOutcome /\ <>(wait.pc = "done")

\* A call with the defaults has thrown, after 30 failed attempts and 29 waits
\* of one second.
C24_Witness ==
    /\ wait.pc = "done" /\ wait.result = "throw"
    /\ wait.maxRetries = DefaultMaxRetries /\ wait.delay = DefaultDelay
    /\ wait.attempts = DefaultMaxRetries
    /\ wait.slept = DefaultDelay * (DefaultMaxRetries - 1)

----------------------------------------------------------------------------
(* The comparison list: ComparisonList.jsx *)

\* What no call on the comparison list touches.
compareFrame ==
    <<dbVars, makerCache, modelCache, phase, lastMatch, req, resp, pages,
      soldVars, driverVars, wait, market_insights, now, insightCalls, page>>

\* The most listings the list takes: the 5 of `length < 5`.
MaxCompared == 5

ListingIds == 1..MaxListingId

\* ids.includes(listingId)
Includes(ids, listingId) == \E i \in DOMAIN ids : ids[i] = listingId

\* ids.filter(id => id !== listingId)
Without(ids, listingId) == SelectSeq(ids, LAMBDA id : id # listingId)

\* One more id taken than `length < 5` allows.
MayAddUpToLimit(ids, listingId) == ~Includes(ids, listingId) /\ Len(ids) <= MaxCompared

\* !ids.includes(listingId) && ids.length < 5
MayAdd(ids, listingId) == ~Includes(ids, listingId) /\ Len(ids) < MaxCompared

\* saved ? JSON.parse(saved) : []   (localStorage holds the item or not)
SavedIds == IF IsNull(localStorage) THEN <<>> ELSE Get(localStorage)

\* A browser with nothing in localStorage; listingIds is Null while no
\* ComparisonList component is mounted.
InitCompare ==
    /\ Unseeded
    /\ wait = NoWait
    /\ localStorage = Null /\ listingIds = Null /\ lastCall = NoCall
    /\ market_insights = {} /\ now = 0 /\ insightCalls = <<>>
    /\ page = NoPage

\* The component mounts: useState([]), then the effect reads localStorage.
Mount ==
    /\ IsNull(listingIds)
    /\ listingIds' = Some(SavedIds)
    /\ UNCHANGED <<localStorage, lastCall, compareFrame>>

Unmount ==
    /\ ~IsNull(listingIds)
    /\ listingIds' = Null
    /\ UNCHANGED <<localStorage, lastCall, compareFrame>>

addToList(listingId) ==
    /\ ~IsNull(listingIds)
    /\ IF MayAdd(Get(listingIds), listingId)
       THEN /\ listingIds' = Some(Append(Get(listingIds), listingId))
            /\ localStorage' = Some(Append(Get(listingIds), listingId))
       ELSE UNCHANGED <<listingIds, localStorage>>
    /\ lastCall' = [op |-> "addToList", id |-> listingId]
    /\ UNCHANGED compareFrame

removeFromList(listingId) ==
    /\ ~IsNull(listingIds)
    /\ listingIds' = Some(Without(Get(listingIds), listingId))
    /\ localStorage' = Some(Without(Get(listingIds), listingId))
    /\ lastCall' = [op |-> "removeFromList", id |-> listingId]
    /\ UNCHANGED compareFrame

clearList ==
    /\ ~IsNull(listingIds)
    /\ listingIds' = Some(<<>>)
    /\ localStorage' = Null
    /\ lastCall' = [op |-> "clearList"]
    /\ UNCHANGED compareFrame

\* The exported addToComparison, which other pages call: it works on
\* localStorage alone and returns whether it stored the id.
addToComparison(listingId) ==
    /\ IF MayAdd(SavedIds, listingId)
       THEN /\ localStorage' = Some(Append(SavedIds, listingId))
            /\ lastCall' = [op |-> "addToComparison", id |-> listingId,
                            returned |-> TRUE]
       ELSE /\ UNCHANGED localStorage
            /\ lastCall' = [op |-> "addToComparison", id |-> listingId,
                            returned |-> FALSE]
    /\ UNCHANGED <<listingIds, compareFrame>>

NextCompare ==
    \/ Mount
    \/ Unmount
    \/ \E id \in ListingIds : addToList(id)
    \/ \E id \in ListingIds : removeFromList(id)
    \/ clearList
    \/ \E id \in ListingIds : addToComparison(id)

SpecCompare == InitCompare /\ [][NextCompare]_vars

----------------------------------------------------------------------------
(* Properties of the comparison list, checked under SpecCompare *)

NoIdTwice(ids) == \A i \in DOMAIN ids : \A j \in DOMAIN ids : ids[i] = ids[j] => i = j

\* C25: the list in localStorage holds at most 5 ids and none twice, and a
\* call of addToComparison has returned true exactly when it appended its id
\* to the stored list, false when the id was there or the list held 5 ids.
C25_AtMostFiveDistinct ==
    /\ Len(SavedIds) <= 5
    /\ NoIdTwice(SavedIds)
    /\ lastCall.op = "addToComparison" =>
          IF lastCall.returned
          THEN SavedIds # <<>> /\ SavedIds[Len(SavedIds)] = lastCall.id
          ELSE \/ Includes(SavedIds, lastCall.id)
               \/ Len(SavedIds) = 5

\* The list is full, a sixth id has been refused and the component holds a
\* list read before the last ids were added.
C25_Witness ==
    /\ Len(SavedIds) = 5
    /\ lastCall.op = "addToComparison" /\ ~lastCall.returned
    /\ ~Includes(SavedIds, lastCall.id)
    /\ ~IsNull(listingIds) /\ Len(Get(listingIds)) < 5

----------------------------------------------------------------------------
(* The catalog a run leaves when no call is answered from a cache *)

\* getMakerId and getModelId for one row with both caches left out: the two
\* upserts, on the tables and serial values of db.
UpsertCatalog(db, record) ==
    LET name    == Trim(record.Maker)
        mHit    == {m \in db.makers : m.name = name}
        makerId == IF mHit # {} THEN (CHOOSE m \in mHit : TRUE).id ELSE db.makerSeq + 1
        mkRows  == IF mHit # {} THEN db.makers
                   ELSE db.makers \cup {[id |-> makerId, name |-> name]}
        gid     == Trim(record.Genmodel_ID)
        dHit    == {m \in db.models : m.maker_id = makerId /\ m.genmodel_id = gid}
        mdRows  == IF dHit # {}
                   THEN (db.models \ dHit)
                          \cup {[m EXCEPT !.name = Trim(record.Genmodel)] : m \in dHit}
                   ELSE db.models \cup {[id |-> db.modelSeq + 1, maker_id |-> makerId,
                                          name |-> Trim(record.Genmodel),
                                          genmodel_id |-> gid]}
    IN [makers |-> mkRows, models |-> mdRows,
        makerSeq |-> db.makerSeq + 1, modelSeq |-> db.modelSeq + 1]

RECURSIVE UpsertCatalogRows(_, _)
UpsertCatalogRows(db, rows) ==
    IF rows = <<>> THEN db
    ELSE UpsertCatalogRows(UpsertCatalog(db, Head(rows)), Tail(rows))

\* The rows of the sales file and of the price file the run has read so far:
\* of the file it is reading, or was reading when it failed, the rows before
\* run.pos.
CatalogRowsRead ==
    LET key(r) == [Maker |-> r.Maker, Genmodel |-> r.Genmodel,
                   Genmodel_ID |-> r.Genmodel_ID]
        names(r) == [Maker |-> MakerNameOf(r), Genmodel |-> ModelNameOf(r),
                     Genmodel_ID |-> GenmodelIdOf(r)]
        salesRead  == IF run.file = "sales"
                      THEN SubSeq(run.files.sales, 1, run.pos - 1)
                      ELSE run.files.sales
        pricesRead == IF run.file = "sales" THEN <<>>
                      ELSE IF run.file = "prices"
                      THEN SubSeq(run.files.prices, 1, run.pos - 1)
                      ELSE run.files.prices
    IN [i \in DOMAIN salesRead |-> key(salesRead[i])]
         \o [i \in DOMAIN SelectSeq(pricesRead, IsCatalogRow)
               |-> names(SelectSeq(pricesRead, IsCatalogRow)[i])]

\* C26: at every point of a run the makers and models rows are those the
\* same rows leave, from the tables the run started on, when every
\* getMakerId and getModelId call is answered by its upsert and none from a
\* cache.
C26_CachesOnlyOptimise ==
    LET db == UpsertCatalogRows([makers |-> run.start.makers, models |-> run.start.models,
                                 makerSeq |-> run.start.makerSeq,
                                 modelSeq |-> run.start.modelSeq],
                                CatalogRowsRead)
    IN makers = db.makers /\ models = db.models

----------------------------------------------------------------------------
(* GET /api/analytics/market/insights *)

\* What the handler leaves alone.
insightFrame ==
    <<dbVars, makerCache, modelCache, phase, lastMatch, req, pages,
      soldVars, driverVars, wait, localStorage, listingIds, lastCall, page>>

\* Milliseconds: the hour of `cacheAge < 3600000`, and the step of the clock.
Hour == 3600000
HalfHour == 1800000

\* generateMarketInsights: insights computed from the listings table (here
\* the number of listings they were computed over) and the time of generation.
generateMarketInsights ==
    [insights |-> Cardinality(listings), generated_at |-> now]

GeneralInsights == {r \in market_insights : r.insight_type = "general"}

\* SELECT insight_data FROM market_insights WHERE insight_type = 'general'
\* ORDER BY generated_at DESC LIMIT 1: the result rows have the one column
\* insight_data; of rows generated at the same time any may come first.
CachedRows ==
    {[insight_data |-> r.insight_data] :
        r \in {x \in GeneralInsights :
                 \A o \in GeneralInsights : o.generated_at <= x.generated_at}}

\* Date.now() - new Date(row.generated_at).getTime(): a column that is not
\* in the row is undefined, new Date(undefined).getTime() is NaN and so is
\* the difference.
CacheAge(row) ==
    IF "generated_at" \in DOMAIN row THEN Some(now - row.generated_at) ELSE NaN

\* cacheAge < 3600000: false for NaN.
IsFresh(row) == CacheAge(row) # NaN /\ Get(CacheAge(row)) < Hour

\* INSERT INTO market_insights (insight_type, insight_data) VALUES
\* ('general', $1): generated_at takes its default NOW().
InsertInsight(data) ==
    market_insights \cup
        {[id |-> Cardinality(market_insights) + 1, insight_type |-> "general",
          insight_data |-> data, generated_at |-> now]}

\* A server over a seeded database, no insight stored yet.
InitInsights ==
    /\ makers = {[id |-> 1, name |-> <<"A","b">>]}
    /\ models = {[id |-> 1, maker_id |-> 1, name |-> <<"a","4">>,
                  genmodel_id |-> <<"g","1">>]}
    /\ prices = {}
    /\ listings \in {L \in SUBSET SampleListings : Cardinality(L) <= MaxListings}
    /\ makerSeq = 1 /\ modelSeq = 1 /\ listingSeq = Cardinality(SampleListings)
    /\ makerCache = <<>> /\ modelCache = <<>>
    /\ phase = "listings"
    /\ lastMatch = NoMatch
    /\ req = NoRequest /\ resp = NoRequest /\ pages = <<>>
    /\ sales = {} /\ sold_cars = {} /\ soldSeq = 0
    /\ run = NoRun /\ procs = NoProcs /\ titleIn = Null /\ extracted = Null
    /\ wait = NoWait
    /\ localStorage = Null /\ listingIds = Null /\ lastCall = NoCall
    /\ market_insights = {} /\ now = 0 /\ insightCalls = <<>>
    /\ page = NoPage

\* A request arrives: the handler runs up to its first await, the SELECT of
\* the stored insight.
InsightsRequested ==
    /\ Len(insightCalls) < MaxInsightCalls
    /\ Cardinality(market_insights) + Len(insightCalls) < MaxInsightRows
    /\ insightCalls' = Append(insightCalls, [pc |-> "select", insights |-> Null])
    /\ UNCHANGED <<market_insights, now, resp, insightFrame>>

\* The SELECT of call i is answered: cached.rows is empty or holds the one
\* row of the query; the stored insight is sent when that row is fresh, else
\* the handler goes on to generateMarketInsights.
CacheRead(i) ==
    /\ insightCalls[i].pc = "select"
    /\ \E cached \in IF CachedRows = {} THEN {<<>>} ELSE {<<row>> : row \in CachedRows} :
          IF Len(cached) > 0 /\ IsFresh(cached[1])
          THEN /\ resp' = [sent |-> TRUE, status |-> 200, body |-> cached[1].insight_data]
               /\ insightCalls' = RemoveAt(insightCalls, i)
          ELSE /\ insightCalls' = [insightCalls EXCEPT ![i].pc = "generate"]
               /\ UNCHANGED resp
    /\ UNCHANGED <<market_insights, now, insightFrame>>

\* The four queries of generateMarketInsights are answered (they read the
\* listings, which no step of the server writes) and the handler goes on to
\* its INSERT.
InsightsGenerated(i) ==
    /\ insightCalls[i].pc = "generate"
    /\ insightCalls' = [insightCalls EXCEPT
                          ![i] = [pc |-> "insert",
                                  insights |-> Some(generateMarketInsights)]]
    /\ UNCHANGED <<market_insights, now, resp, insightFrame>>

\* The INSERT of call i is done and res.json sends the new insights.
InsightsStored(i) ==
    /\ insightCalls[i].pc = "insert"
    /\ market_insights' = InsertInsight(Get(insightCalls[i].insights))
    /\ resp' = [sent |-> TRUE, status |-> 200, body |-> Get(insightCalls[i].insights)]
    /\ insightCalls' = RemoveAt(insightCalls, i)
    /\ UNCHANGED <<now, insightFrame>>

\* The query call i waits for is rejected (the database cannot be reached):
\* the catch of the handler answers.
InsightsFailed(i) ==
    /\ resp' = [sent |-> TRUE, status |-> 500,
                body |-> [error |-> "Failed to generate market insights"]]
    /\ insightCalls' = RemoveAt(insightCalls, i)
    /\ UNCHANGED <<market_insights, now, insightFrame>>

\* Half an hour passes.
Tick ==
    /\ now < MaxHalfHours * HalfHour
    /\ now' = now + HalfHour
    /\ UNCHANGED <<market_insights, resp, insightCalls, insightFrame>>

NextInsights ==
    \/ InsightsRequested
    \/ \E i \in DOMAIN insightCalls : CacheRead(i)
    \/ \E i \in DOMAIN insightCalls : InsightsGenerated(i)
    \/ \E i \in DOMAIN insightCalls : InsightsStored(i)
    \/ \E i \in DOMAIN insightCalls : InsightsFailed(i)
    \/ Tick

SpecInsights == InitInsights /\ [][NextInsights]_vars

----------------------------------------------------------------------------
(* Properties of the insights endpoint, checked under SpecInsights *)

\* The 'general' insights stored last.
LatestInsights ==
    {r \in GeneralInsights : \A o \in GeneralInsights : o.generated_at <= r.generated_at}

\* C27: a request made less than one hour after the last 'general' insight
\* was generated is answered with that insight and adds no row; any other
\* request stores new insights as a new row and is answered with them.
C27_FreshInsightIsReused ==
    [][\A i \in DOMAIN insightCalls :
         CacheRead(i) =>
            IF \E r \in LatestInsights : now - r.generated_at < 3600000
            THEN /\ insightCalls' = RemoveAt(insightCalls, i)
                 /\ \E r \in LatestInsights : resp'.body = r.insight_data
            ELSE insightCalls'[i].pc = "generate"]_vars

----------------------------------------------------------------------------
(* Further properties of the price-delta endpoint, checked under Spec *)

\* The listing has a price and its model a price point with a price.
HasComparablePrice(l) ==
    /\ ~IsNull(l.price_eur)
    /\ \E p \in PricesOf(l) : ~IsNull(p.entry_price_eur)

\* C28: every listing with a non-null price whose model has a price point
\* with a non-null entry_price_eur is counted in the total of a request
\* without filters, whatever other price points the model has.
C28_PricedModelParticipates ==
    (Answered /\ FilterCount(req) = 0) =>
        resp.total >= Cardinality({l \in listings : HasComparablePrice(l)})

----------------------------------------------------------------------------
(* Filter parameters sent as the empty string *)

FilterParams == {"maker", "model", "minPrice", "maxPrice",
                 "minDiscount", "maxDiscount"}

\* First-page requests in which a filter parameter arrives as '' (as in
\* ?minDiscount=&limit=2): req.query holds '' for it, not undefined.
EmptyStringRequests ==
    {q \in [sent : {TRUE},
            maker : {Null, Some(<<>>), Some(<<"a">>)},
            model : {Null, Some(<<>>)},
            minPrice : {Null, Some(<<>>), Some(<<"1","8","0","0","0">>)},
            maxPrice : {Null, Some(<<>>)},
            minDiscount : {Null, Some(<<>>), Some(<<"1","0">>)},
            maxDiscount : {Null, Some(<<>>)},
            sortBy : {Null},
            limit : {MaxLimit},
            offset : {0}] :
        /\ FilterCount(q) <= MaxFilters
        /\ \E k \in FilterParams : q[k] = Some(<<>>)}

NextEmptyString ==
    \/ \E q \in EmptyStringRequests : PriceDeltaRequest(q)
    \/ Done

SpecEmptyString == Init /\ [][NextEmptyString]_vars

\* The request without parameter k.
Omitting(q, k) == [q EXCEPT ![k] = Null]

\* C29: a price-delta filter parameter sent as the empty string is the same
\* as the parameter left out: the response (rows and total) to the request
\* is a response the handler gives to the request without that parameter,
\* for each of maker, model, minPrice, maxPrice, minDiscount and maxDiscount.
C29_EmptyIsOmitted ==
    (req.sent /\ resp.sent) =>
        \A k \in FilterParams :
            req[k] = Some(<<>>) => resp \in Responses(Omitting(req, k))

----------------------------------------------------------------------------
(* The Listings page: loadPriceDeltas and the effect that calls it *)

\* What no step of the page touches: the database is read, never written.
pageFrame ==
    <<dbVars, makerCache, modelCache, phase, lastMatch, req, resp, pages,
      soldVars, driverVars,
      wait, localStorage, listingIds, lastCall, market_insights, now, insightCalls>>

\* useState of priceDeltaFilters.limit: the page size.
PageLimit == 50

\* The state of the component after useState: page.inflight holds, in the
\* order of issue, the calls of loadPriceDeltas that wait for their fetch
\* (response Null) or for the body of the response it returned, and
\* page.issued counts the requests issued so far.
FreshPage ==
    [mounted |-> TRUE,
     priceDeltas |-> [data |-> <<>>, total |-> 0],
     error |-> Null,
     priceDeltaFilters |-> [maker |-> <<>>, model |-> <<>>, minPrice |-> <<>>,
                            maxPrice |-> <<>>, limit |-> PageLimit],
     priceDeltaPage |-> 0,
     sortConfig |-> [column |-> "price_delta_percent", direction |-> "desc"],
     inflight |-> <<>>,
     issued |-> 0]

\* `if (priceDeltaFilters.maker) params.append('maker', ...)`
AppendIfSet(text) == IF text = <<>> THEN Null ELSE Some(text)

\* The URLSearchParams loadPriceDeltas builds from the state s.
PageParams(s) ==
    [sent |-> TRUE,
     maker |-> AppendIfSet(s.priceDeltaFilters.maker),
     model |-> AppendIfSet(s.priceDeltaFilters.model),
     minPrice |-> AppendIfSet(s.priceDeltaFilters.minPrice),
     maxPrice |-> AppendIfSet(s.priceDeltaFilters.maxPrice),
     minDiscount |-> Null, maxDiscount |-> Null,
     sortBy |-> Some([dash |-> s.sortConfig.direction = "desc",
                      rest |-> s.sortConfig.column]),
     limit |-> s.priceDeltaFilters.limit,
     offset |-> s.priceDeltaPage * s.priceDeltaFilters.limit]

\* The effect after a render with state s: loadPriceDeltas runs up to its
\* fetch, which joins the outstanding requests; setError(null) comes first.
loadPriceDeltas(s) ==
    [s EXCEPT !.error = Null,
              !.inflight = Append(@, [request |-> PageParams(s), response |-> Null]),
              !.issued = @ + 1]

\* The listings of a database that fills more than one page: each with a
\* price and a title of its own.
ManyListings ==
    {StoredListing(id, <<"A","b"," ","a","4"," ">> \o NatText(id),
                   Some(10000 + 100 * id), Some(2015), Some(1))
       : id \in 1..(PageLimit + 1)}

\* Databases the page is served from: two listings whose first has two
\* reference prices at the same distance, one whose query fails, and one
\* that fills more than a page.
PageDatabasesOf(sample) ==
    { [prices |-> {PricePoint(2014, Some(20000)), PricePoint(2016, Some(30000))},
       listings |-> {l \in sample : l.id \in {1, 3}}],
      [prices |-> {PricePoint(2016, Some(30000))},
       listings |-> ManyListings],
      [prices |-> {PricePoint(2016, Some(30000))},
       listings |-> {l \in sample : l.id \in {1, 3}}],
      [prices |-> {PricePoint(2014, Some(0))},
       listings |-> {l \in sample : l.id = 1}] }

PageDatabases == PageDatabasesOf(SampleListings)

InitPage ==
    /\ makers = {[id |-> 1, name |-> <<"A","b">>]}
    /\ models = {[id |-> 1, maker_id |-> 1, name |-> <<"a","4">>,
                  genmodel_id |-> <<"g","1">>]}
    /\ \E db \in PageDatabases :
          /\ prices = db.prices /\ listings = db.listings
          /\ listingSeq = MaxOf(Cardinality(SampleListings), Cardinality(db.listings))
    /\ makerSeq = 1 /\ modelSeq = 1
    /\ makerCache = <<>> /\ modelCache = <<>>
    /\ phase = "listings"
    /\ lastMatch = NoMatch
    /\ req = NoRequest /\ resp = NoRequest /\ pages = <<>>
    /\ sales = {} /\ sold_cars = {} /\ soldSeq = 0
    /\ run = NoRun /\ procs = NoProcs /\ titleIn = Null /\ extracted = Null
    /\ AppIdle

\* A render whose effect may run: the model stops at MaxRequests requests.
MayIssue == page.mounted /\ page.issued < MaxRequests

\* The page mounts: the effect runs after the first render.
MountListings ==
    /\ ~page.mounted
    /\ page' = loadPriceDeltas(FreshPage)
    /\ UNCHANGED pageFrame

\* onChange of the maker input: the model filter is cleared with it.  A
\* suggestion that equals the text in the box calls it as well, and the new
\* filters object makes the effect run.
ChangeMaker(value) ==
    /\ MayIssue
    /\ page' = loadPriceDeltas(
                 [page EXCEPT !.priceDeltaFilters.maker = value,
                              !.priceDeltaFilters.model = <<>>,
                              !.priceDeltaPage = 0])
    /\ UNCHANGED pageFrame

ChangeModel(value) ==
    /\ MayIssue
    /\ page' = loadPriceDeltas(
                 [page EXCEPT !.priceDeltaFilters.model = value,
                              !.priceDeltaPage = 0])
    /\ UNCHANGED pageFrame

ChangeMinPrice(value) ==
    /\ MayIssue /\ value # page.priceDeltaFilters.minPrice
    /\ page' = loadPriceDeltas(
                 [page EXCEPT !.priceDeltaFilters.minPrice = value,
                              !.priceDeltaPage = 0])
    /\ UNCHANGED pageFrame

ChangeMaxPrice(value) ==
    /\ MayIssue /\ value # page.priceDeltaFilters.maxPrice
    /\ page' = loadPriceDeltas(
                 [page EXCEPT !.priceDeltaFilters.maxPrice = value,
                              !.priceDeltaPage = 0])
    /\ UNCHANGED pageFrame

\* A click on a column header.
handleSort(column) ==
    /\ MayIssue
    /\ page' = loadPriceDeltas(
                 [page EXCEPT
                    !.sortConfig =
                        IF @.column = column
                        THEN [column |-> column,
                              direction |-> IF @.direction = "asc" THEN "desc"
                                            ELSE "asc"]
                        ELSE [column |-> column, direction |-> "asc"],
                    !.priceDeltaPage = 0])
    /\ UNCHANGED pageFrame

\* The Next button, disabled when
\* (priceDeltaPage + 1) * limit >= priceDeltas.total.
NextClicked ==
    /\ MayIssue
    /\ (page.priceDeltaPage + 1) * page.priceDeltaFilters.limit
           < page.priceDeltas.total
    /\ page' = loadPriceDeltas([page EXCEPT !.priceDeltaPage = @ + 1])
    /\ UNCHANGED pageFrame

\* The Previous button: Math.max(0, priceDeltaPage - 1).  On page 0 the
\* state keeps its value and no effect runs.
PreviousClicked ==
    /\ MayIssue
    /\ page.priceDeltaPage > 0
    /\ page' = loadPriceDeltas([page EXCEPT !.priceDeltaPage = @ - 1])
    /\ UNCHANGED pageFrame

\* The body of the response r to the i-th outstanding request has been read,
\* and loadPriceDeltas runs on from `await res.json()`.  The body of a 500
\* holds a message, which both catch blocks put a prefix to.
Settle(s, i, r) ==
    IF r.status = 200
    THEN [s EXCEPT !.inflight = RemoveAt(@, i),
                   !.priceDeltas = JsonBody(r),
                   !.error = Null]
    ELSE [s EXCEPT !.inflight = RemoveAt(@, i),
                   !.error = Some(<<"Failed to load price deltas: ",
                                    "Failed to load price deltas: ">> \o r.message)]

\* `await fetch(...)` of an outstanding request returns the server's
\* response, and clearTimeout stops the timer of the request; the body is
\* read next.
ResponseArrives ==
    /\ page.mounted
    /\ \E i \in DOMAIN page.inflight :
         /\ IsNull(page.inflight[i].response)
         /\ \E r \in Responses(page.inflight[i].request) :
               page' = [page EXCEPT !.inflight[i].response = Some(r)]
    /\ UNCHANGED pageFrame

\* `await res.json()` returns the body of a response.
BodyArrives ==
    /\ page.mounted
    /\ \E i \in DOMAIN page.inflight :
         /\ ~IsNull(page.inflight[i].response)
         /\ page' = Settle(page, i, Get(page.inflight[i].response))
    /\ UNCHANGED pageFrame

\* The 30 s timer of a request fires before its fetch returns:
\* controller.abort().
RequestTimesOut ==
    /\ page.mounted
    /\ \E i \in DOMAIN page.inflight :
         /\ IsNull(page.inflight[i].response)
         /\ page' = [page EXCEPT
                       !.inflight = RemoveAt(@, i),
                       !.error = Some(<<"Failed to load price deltas: ",
                                        "Request timed out. The query may be taking too long.">>)]
    /\ UNCHANGED pageFrame

MakerInputs == {<<>>, <<"a">>}
ModelInputs == {<<>>, <<"x">>}
PriceInputs == {<<>>, <<"2","0","0","0","0">>}
SortColumns == {"price_eur", "title"}

NextPageSpec ==
    \/ MountListings
    \/ \E value \in MakerInputs : ChangeMaker(value)
    \/ \E value \in ModelInputs : ChangeModel(value)
    \/ \E value \in PriceInputs : ChangeMinPrice(value)
    \/ \E value \in PriceInputs : ChangeMaxPrice(value)
    \/ \E column \in SortColumns : handleSort(column)
    \/ NextClicked
    \/ PreviousClicked
    \/ ResponseArrives
    \/ BodyArrives
    \/ RequestTimesOut

SpecPage == InitPage /\ [][NextPageSpec]_vars

\* The request the effect issued last: the one built from the current state.
LatestRequest == PageParams(page)

\* C30: on the Listings page, once no price-delta request is outstanding,
\* the displayed rows and total are those of a response to the request issued
\* last (when that request succeeds): a response to an earlier request never
\* stays on display over it, in whatever order the responses arrive.
C30_LatestResponseShown ==
    (/\ page.mounted /\ page.inflight = <<>>
     /\ IsNull(page.error)
     /\ \A r \in Responses(LatestRequest) : r.status = 200) =>
        \E r \in Responses(LatestRequest) :
            /\ page.priceDeltas.data = r.data
            /\ page.priceDeltas.total = r.total

============================================================================
